---- MODULE Spec2Model ----
(***************************************************************************)
(* Session registry of the assistant bot: the keyed map of ThreadInfo      *)
(* records (chat_user_threads), the eviction heap (thread_heap), the       *)
(* resolve / reset / purge operations and the background sweeper of        *)
(* src/src/thread_manager.py, run as asyncio coroutines that interleave    *)
(* at every await on the backend client.                                   *)
(***************************************************************************)
EXTENDS Integers, Sequences, FiniteSets, TLC

(* ------------------------------ bounds --------------------------------- *)
\* message handlers (coroutines) that may be in flight at once
NumHandlers == 2
\* user ids; session keys are (chat_id, user_id) pairs of one chat
NumUsers == 2
\* backend sessions the backend hands out before create only fails
MaxSessions == 2
\* ThreadInfo objects allocated before the callers stop issuing calls
MaxObjs == 3
\* the clock advances in steps of TickHours hours up to MaxTime
TickHours == 24
MaxTime == 48
\* sender ids 1..NumSenders and chat ids 1..NumChats of the updates received
NumSenders == 3
NumChats == 3

(* -------------------------- program constants -------------------------- *)
\* config.py: THREAD_LIFETIME_HOURS = int(os.getenv(..., "24"))
THREAD_LIFETIME_HOURS == 24

Handlers == 1..NumHandlers
Keys == {1} \X (1..NumUsers)
\* the keys a session can be registered under: those, and the (chat_id,
\* user_id) pairs of the updates received
RegistryKeys == Keys \cup ((1..NumChats) \X (1..NumSenders))
NoKey == <<0, 0>>
\* Python None for a ThreadInfo reference; object ids are 1..Len(objs)
None == 0

VARIABLES
    now,                \* datetime.now(), in hours
    objs,               \* allocated ThreadInfo objects, by object id
    chat_user_threads,  \* dict key -> ThreadInfo, as (key, object id) pairs in insertion order
    thread_heap,        \* heapq list of ThreadInfo references (object ids)
    live,               \* session ids that exist on the backend
    nextId,             \* session ids handed out by the backend so far
    deleteIssued,       \* history: session ids a reset or the sweeper issued a backend delete call for
    task,               \* per handler: the coroutine's position and locals
    sweep,              \* the cleanup_old_threads coroutine: position and locals
    purge,              \* the delete_all_threads coroutine: position and locals
    replaced,           \* history: (key, session id) pairs whose record was replaced after an invalid report
    lastRes             \* history: per key, the session id the latest resolve returned, since
                        \* the key's last reset or purge and with no time elapsed since (0: none)

\* the message-handling side (handlers.py and bot.py): the configuration read
\* at start-up, the bot's identity, the rate limiter and the unit of work
\* that handles one update
VARIABLES
    USERS,              \* config.USERS: "*" or the set of allowed usernames
    ALLOWED_CHATS,      \* config.ALLOWED_CHATS: "*" or the set of allowed chat ids
    bot_info,           \* the bot's own identity from get_me(), or None
    rate_limits,        \* per user id: the rate window (count, windowStart), or None
    clock,              \* the wall clock the rate limiter reads, in seconds
    unit                \* the handle_message coroutine: position, message and what it did

\* the module state of bot.py, the program main() starts: its own registry of
\* sessions, keyed by user id, and its own cleanup coroutine
VARIABLES
    bot_objs,           \* the ThreadInfo objects bot.py allocated, by object id
    user_threads,       \* bot.py user_threads: dict user_id -> ThreadInfo, as (user_id, object id) pairs
    bot_thread_heap,    \* bot.py thread_heap: heapq list of ThreadInfo references (object ids)
    bot_sweep           \* bot.py's cleanup_old_threads coroutine: position and locals

\* the session registry
rvars == <<now, objs, chat_user_threads, thread_heap, live, nextId, deleteIssued,
           task, sweep, purge, replaced, lastRes>>

\* the message-handling side
avars == <<USERS, ALLOWED_CHATS, bot_info, rate_limits, clock, unit>>

\* the registry of bot.py
bvars == <<bot_objs, user_threads, bot_thread_heap, bot_sweep>>

vars == <<rvars, avars, bvars>>

(* ------------------------------ ThreadInfo ----------------------------- *)
\* dataclass ThreadInfo(thread_id, last_access, chat_id, user_id)
ThreadInfo(thread_id, last_access, chat_id, user_id) ==
    [thread_id |-> thread_id, last_access |-> last_access,
     chat_id |-> chat_id, user_id |-> user_id]

\* ThreadInfo.key property
KeyOf(info) == <<info.chat_id, info.user_id>>

\* ThreadInfo.__lt__ on two references into the object store os
Lt(os, a, b) == os[a].last_access < os[b].last_access

(* --------------------------------- dict -------------------------------- *)
\* chat_user_threads.get(key): the object id, or None
MapGet(m, k) ==
    IF \E i \in 1..Len(m) : m[i][1] = k
    THEN (CHOOSE e \in {m[i] : i \in 1..Len(m)} : e[1] = k)[2]
    ELSE None

\* key in chat_user_threads
MapHas(m, k) == \E i \in 1..Len(m) : m[i][1] = k

\* chat_user_threads[key] = o : keeps the position of a present key, appends an absent one
MapPut(m, k, o) ==
    IF MapHas(m, k)
    THEN [i \in 1..Len(m) |-> IF m[i][1] = k THEN <<k, o>> ELSE m[i]]
    ELSE Append(m, <<k, o>>)

\* del chat_user_threads[key]
MapDel(m, k) == SelectSeq(m, LAMBDA e : e[1] # k)

(* -------------------------------- heapq -------------------------------- *)
\* positions are 0-based as in heapq; h[p + 1] is the element at position p
Swap0(h, p, x) == [h EXCEPT ![p + 1] = x]

\* heapq._siftdown(heap, startpos, pos) with newitem held aside
RECURSIVE SiftDownLoop(_, _, _, _, _)
SiftDownLoop(os, h, startpos, pos, newitem) ==
    IF pos > startpos
    THEN LET parentpos == (pos - 1) \div 2
             parent == h[parentpos + 1]
         IN  IF Lt(os, newitem, parent)
             THEN SiftDownLoop(os, Swap0(h, pos, parent), startpos, parentpos, newitem)
             ELSE Swap0(h, pos, newitem)
    ELSE Swap0(h, pos, newitem)

SiftDown(os, h, startpos, pos) == SiftDownLoop(os, h, startpos, pos, h[pos + 1])

\* heapq._siftup(heap, pos): bubble the smaller child up to a leaf, then sift down
RECURSIVE SiftUpLoop(_, _, _, _, _)
SiftUpLoop(os, h, startpos, pos, newitem) ==
    LET endpos == Len(h)
        childpos == 2 * pos + 1
        rightpos == childpos + 1
        pick == IF rightpos < endpos /\ ~Lt(os, h[childpos + 1], h[rightpos + 1])
                THEN rightpos ELSE childpos
    IN  IF childpos < endpos
        THEN SiftUpLoop(os, Swap0(h, pos, h[pick + 1]), startpos, pick, newitem)
        ELSE SiftDown(os, Swap0(h, pos, newitem), startpos, pos)

SiftUp(os, h, pos) == SiftUpLoop(os, h, pos, pos, h[pos + 1])

\* heapq.heappush(heap, item)
HeapPush(os, h, item) == SiftDown(os, Append(h, item), 0, Len(h))

\* heapq.heappop(heap): the heap left behind (the popped item is the old heap[0])
HeapPopRest(os, h) ==
    LET lastelt == h[Len(h)]
        rest == SubSeq(h, 1, Len(h) - 1)
    IN  IF rest = <<>> THEN rest ELSE SiftUp(os, Swap0(rest, 0, lastelt), 0)

\* heapq.heapify(x): _siftup at positions n//2 - 1 down to 0
RECURSIVE HeapifyFrom(_, _, _)
HeapifyFrom(os, h, i) ==
    IF i < 0 THEN h ELSE HeapifyFrom(os, SiftUp(os, h, i), i - 1)

Heapify(os, h) == HeapifyFrom(os, h, (Len(h) \div 2) - 1)

(* ------------------------------- backend ------------------------------- *)
\* client.beta.threads.messages.list(thread_id): answers only for an existing
\* session; any call may raise (not found, transport error)
ListResp(lv, thread_id) == IF thread_id \in lv THEN {"ok", "error"} ELSE {"error"}

\* client.beta.threads.delete(thread_id): deletes an existing session, or raises
DeleteResp(lv, thread_id) == IF thread_id \in lv THEN {"ok", "error"} ELSE {"error"}

\* client.beta.threads.create(): a fresh session id, or raises
CreateResp(n) == IF n < MaxSessions THEN {"ok", "error"} ELSE {"error"}

\* the backend after a delete call answered resp
AfterBackendDelete(lv, thread_id, resp) == IF resp = "ok" THEN lv \ {thread_id} ELSE lv

\* history of the delete calls issued by delete_user_thread and by
\* cleanup_old_threads
CountDelete(dc, thread_id) == dc \cup {thread_id}

(* ------------------------- update_thread_access ------------------------ *)
update_thread_access_no_push(os, m, h, chat_id, user_id, thread_id, current_time) ==
    LET key == <<chat_id, user_id>>
        existing == MapGet(m, key)
    IN  IF existing # None /\ os[existing].thread_id = thread_id
        THEN LET os2 == [os EXCEPT ![existing].last_access = current_time]
             IN  [objs |-> os2, map |-> m, heap |-> Heapify(os2, h)]
        ELSE LET thread_info == Len(os) + 1
                 os2 == Append(os, ThreadInfo(thread_id, current_time, chat_id, user_id))
             IN  [objs |-> os2,
                  map |-> MapPut(m, key, thread_info),
                  heap |-> IF existing = None THEN HeapPush(os2, h, thread_info) ELSE h]

\* the registry (objects, map, heap) after update_thread_access(chat_id, user_id, thread_id)
update_thread_access(os, m, h, chat_id, user_id, thread_id, current_time) ==
    LET key == <<chat_id, user_id>>
        existing == MapGet(m, key)
    IN  IF existing # None /\ os[existing].thread_id = thread_id
        THEN LET os2 == [os EXCEPT ![existing].last_access = current_time]
             IN  [objs |-> os2, map |-> m, heap |-> Heapify(os2, h)]
        ELSE LET thread_info == Len(os) + 1
                 os2 == Append(os, ThreadInfo(thread_id, current_time, chat_id, user_id))
             IN  [objs |-> os2,
                  map |-> MapPut(m, key, thread_info),
                  heap |-> HeapPush(os2, h, thread_info)]

update_thread_access_early(os, m, h, chat_id, user_id, resp, thread_id, current_time) ==
    update_thread_access(os, m, h, chat_id, user_id, thread_id, current_time)

\* get_or_create_thread, lines 136-137: the registry after the create call
\* answered thread_id or raised; update_thread_access is reached only when
\* it answered
registry_after_create(os, m, h, chat_id, user_id, resp, thread_id, current_time) ==
    IF resp = "error"
    THEN [objs |-> os, map |-> m, heap |-> h]
    ELSE update_thread_access(os, m, h, chat_id, user_id, thread_id, current_time)

(* -------------------------- check_thread_exists ------------------------ *)
check_thread_exists_swallow(resp) == TRUE

\* True when the list call answered, False when it raised
check_thread_exists(resp) == resp = "ok"

(* ------------------------------ handlers ------------------------------- *)
NoRes == 0

IdleTask ==
    [pc |-> "idle", fn |-> "none", key |-> NoKey, thread_info |-> None,
     sawNone |-> FALSE, checkRaised |-> FALSE, ret |-> 0, existed |-> FALSE,
     raised |-> FALSE, created |-> 0, conc |-> {}, prev |-> NoRes]

\* a coroutine that has returned (or raised): its result r, and of its locals
\* only what the caller can tell: the call, whether it found a record, and
\* the calls it overlapped with
Returned(t, r) ==
    [IdleTask EXCEPT !.pc = "done", !.fn = t.fn, !.key = t.key,
                     !.sawNone = t.sawNone, !.conc = t.conc,
                     !.ret = r.ret, !.existed = r.existed, !.raised = r.raised,
                     !.created = r.created, !.checkRaised = r.checkRaised]

InFlight(t) == t.pc \in {"awaitCheck", "awaitCreate", "awaitDelete"}

\* the dispatcher hands a new update to the first handler that is free
FirstFree(h) == task[h].pc = "idle" /\ \A g \in Handlers : g < h => task[g].pc # "idle"

\* resolves in flight, each of which may still allocate one ThreadInfo
PendingAllocs == Cardinality({g \in Handlers :
                     task[g].fn = "get_or_create_thread" /\ InFlight(task[g])})

\* get_or_create_thread, lines 132-135: read the map, then await the validity
\* check of the remembered session or, with no record, the create call
get_or_create_thread_call(h, k) ==
    /\ FirstFree(h)
    /\ purge.pc = "idle"
    /\ Len(objs) + PendingAllocs < MaxObjs
    /\ LET thread_info == MapGet(chat_user_threads, k)
           peers == {g \in Handlers \ {h} :
                        /\ task[g].fn = "get_or_create_thread"
                        /\ task[g].key = k
                        /\ InFlight(task[g])}
       IN  task' = [task EXCEPT ![h] =
                [IdleTask EXCEPT !.pc = IF thread_info = None THEN "awaitCreate" ELSE "awaitCheck",
                                 !.fn = "get_or_create_thread",
                                 !.key = k,
                                 !.thread_info = thread_info,
                                 !.sawNone = (thread_info = None),
                                 !.conc = peers,
                                 !.prev = lastRes[k]]]
    /\ UNCHANGED <<now, objs, chat_user_threads, thread_heap, live, nextId,
                   deleteIssued, sweep, purge, replaced, lastRes>>
    /\ UNCHANGED <<avars, bvars>>

\* get_or_create_thread, lines 135 and 142-144: the validity check answered
get_or_create_thread_checked(h) ==
    /\ task[h].pc = "awaitCheck"
    /\ task[h].fn = "get_or_create_thread"
    /\ LET t == task[h]
           thread_id == objs[t.thread_info].thread_id
       IN  \E resp \in ListResp(live, thread_id) :
             IF ~check_thread_exists(resp)
             THEN /\ task' = [task EXCEPT ![h].pc = "awaitCreate",
                                          ![h].checkRaised = (resp = "error")]
                  /\ UNCHANGED <<objs, chat_user_threads, thread_heap, lastRes>>
             ELSE LET r == update_thread_access(objs, chat_user_threads, thread_heap,
                                                t.key[1], t.key[2], thread_id, now)
                  IN  /\ objs' = r.objs
                      /\ chat_user_threads' = r.map
                      /\ thread_heap' = r.heap
                      /\ task' = [task EXCEPT ![h] =
                              Returned(t, [ret |-> thread_id, existed |-> FALSE,
                                           raised |-> FALSE, created |-> 0,
                                           checkRaised |-> (resp = "error")])]
                      /\ lastRes' = [lastRes EXCEPT ![t.key] = thread_id]
    /\ UNCHANGED <<now, live, nextId, deleteIssued, sweep, purge, replaced>>
    /\ UNCHANGED <<avars, bvars>>

\* get_or_create_thread, lines 136-141: the create call answered
get_or_create_thread_created(h) ==
    /\ task[h].pc = "awaitCreate"
    /\ LET t == task[h]
       IN  \E resp \in CreateResp(nextId) :
             IF resp = "error"
             THEN LET r == registry_after_create(objs, chat_user_threads, thread_heap,
                                                 t.key[1], t.key[2], resp, None, now)
                  IN  /\ objs' = r.objs
                      /\ chat_user_threads' = r.map
                      /\ thread_heap' = r.heap
                      /\ task' = [task EXCEPT ![h] =
                              Returned(t, [ret |-> 0, existed |-> FALSE, raised |-> TRUE,
                                           created |-> 0, checkRaised |-> t.checkRaised])]
                      /\ UNCHANGED <<live, nextId, replaced, lastRes>>
             ELSE LET thread_id == nextId + 1
                      r == registry_after_create(objs, chat_user_threads, thread_heap,
                                                 t.key[1], t.key[2], resp, thread_id, now)
                  IN  /\ nextId' = thread_id
                      /\ live' = live \cup {thread_id}
                      /\ objs' = r.objs
                      /\ chat_user_threads' = r.map
                      /\ thread_heap' = r.heap
                      /\ task' = [task EXCEPT ![h] =
                              Returned(t, [ret |-> thread_id, existed |-> FALSE,
                                           raised |-> FALSE, created |-> thread_id,
                                           checkRaised |-> t.checkRaised])]
                      /\ replaced' = IF t.thread_info = None THEN replaced
                                     ELSE replaced \cup {<<t.key, objs[t.thread_info].thread_id>>}
                      /\ lastRes' = [lastRes EXCEPT ![t.key] = thread_id]
    /\ UNCHANGED <<now, deleteIssued, sweep, purge>>
    /\ UNCHANGED <<avars, bvars>>

(* --------------------------- delete_user_thread ------------------------ *)
delete_user_thread_keep_on_error(m, k, resp) == IF resp = "ok" THEN MapDel(m, k) ELSE m

\* delete_user_thread, lines 155-168: the map after the backend delete answered resp
delete_user_thread_local(m, k, resp) == IF MapHas(m, k) THEN MapDel(m, k) ELSE m

\* delete_user_thread, lines 149-156: no record returns False at once; a record
\* issues the backend delete and awaits it
delete_user_thread_call(h, k) ==
    /\ FirstFree(h)
    /\ purge.pc = "idle"
    /\ LET thread_info == MapGet(chat_user_threads, k)
       IN  IF thread_info = None
           THEN /\ task' = [task EXCEPT ![h] =
                       [IdleTask EXCEPT !.pc = "done", !.fn = "delete_user_thread",
                                        !.key = k, !.sawNone = TRUE]]
                /\ UNCHANGED deleteIssued
           ELSE /\ task' = [task EXCEPT ![h] =
                       [IdleTask EXCEPT !.pc = "awaitDelete", !.fn = "delete_user_thread",
                                        !.key = k, !.thread_info = thread_info]]
                /\ deleteIssued' = CountDelete(deleteIssued, objs[thread_info].thread_id)
    /\ UNCHANGED <<now, objs, chat_user_threads, thread_heap, live, nextId,
                   sweep, purge, replaced, lastRes>>
    /\ UNCHANGED <<avars, bvars>>

\* delete_user_thread, lines 157-170: the backend delete answered or raised
delete_user_thread_deleted(h) ==
    /\ task[h].pc = "awaitDelete"
    /\ task[h].fn = "delete_user_thread"
    /\ LET t == task[h]
           thread_id == objs[t.thread_info].thread_id
       IN  \E resp \in DeleteResp(live, thread_id) :
             /\ live' = AfterBackendDelete(live, thread_id, resp)
             /\ chat_user_threads' = delete_user_thread_local(chat_user_threads, t.key, resp)
             /\ task' = [task EXCEPT ![h] =
                     Returned(t, [ret |-> 0, existed |-> TRUE, raised |-> FALSE,
                                  created |-> 0, checkRaised |-> FALSE])]
             /\ lastRes' = [lastRes EXCEPT ![t.key] = NoRes]
    /\ UNCHANGED <<now, objs, thread_heap, nextId, deleteIssued, sweep, purge, replaced>>
    /\ UNCHANGED <<avars, bvars>>

\* the caller (handle_message line 85, reset_thread line 161) takes the result
handler_return(h) ==
    /\ task[h].pc = "done"
    /\ task' = [g \in Handlers |->
                  IF g = h THEN IdleTask
                  ELSE [task[g] EXCEPT !.conc = @ \ {h}]]
    /\ UNCHANGED <<now, objs, chat_user_threads, thread_heap, live, nextId,
                   deleteIssued, sweep, purge, replaced, lastRes>>
    /\ UNCHANGED <<avars, bvars>>

(* --------------------------- cleanup_old_threads ----------------------- *)
SweepSleep == [pc |-> "sleep", current_time |-> 0, oldest |-> None]

\* the test of lines 66-69: the oldest heap entry is still within its lifetime
WithinLifetime(os, oldest, current_time) ==
    current_time - os[oldest].last_access <= THREAD_LIFETIME_HOURS

\* lines 63-74: the inner while loop from its head to its next await (the backend
\* delete of the popped entry) or to its end (empty heap, or break), in the
\* registry given by heap h and delete history dc
cleanup_loop(os, h, dc, current_time) ==
    IF h = <<>> \/ WithinLifetime(os, h[1], current_time)
    THEN [sweep |-> SweepSleep, heap |-> h, deleteIssued |-> dc]
    ELSE [sweep |-> [pc |-> "awaitDelete", current_time |-> current_time, oldest |-> h[1]],
          heap |-> HeapPopRest(os, h),
          deleteIssued |-> CountDelete(dc, os[h[1]].thread_id)]

cleanup_local_kept(m, key) == m

\* lines 88-90: the map after the popped entry's backend delete answered
cleanup_local(m, key) == IF MapHas(m, key) THEN MapDel(m, key) ELSE m

\* lines 59-74: the sweeper wakes from its sleep and takes current_time
cleanup_old_threads_wake ==
    /\ sweep.pc = "sleep"
    /\ purge.pc = "idle"
    /\ LET r == cleanup_loop(objs, thread_heap, deleteIssued, now)
       IN  /\ sweep' = r.sweep
           /\ thread_heap' = r.heap
           /\ deleteIssued' = r.deleteIssued
    /\ UNCHANGED <<now, objs, chat_user_threads, live, nextId, task, purge,
                   replaced, lastRes>>
    /\ UNCHANGED <<avars, bvars>>

\* lines 74-95: the backend delete of the popped entry answered or raised; the
\* entry's key leaves the map and the loop goes on
cleanup_old_threads_deleted ==
    /\ sweep.pc = "awaitDelete"
    /\ LET oldest_thread == objs[sweep.oldest]
       IN  \E resp \in DeleteResp(live, oldest_thread.thread_id) :
             LET r == cleanup_loop(objs, thread_heap, deleteIssued, sweep.current_time)
             IN  /\ live' = AfterBackendDelete(live, oldest_thread.thread_id, resp)
                 /\ chat_user_threads' = cleanup_local(chat_user_threads, KeyOf(oldest_thread))
                 /\ sweep' = r.sweep
                 /\ thread_heap' = r.heap
                 /\ deleteIssued' = r.deleteIssued
                 /\ lastRes' = lastRes
    /\ UNCHANGED <<now, objs, nextId, task, purge, replaced>>
    /\ UNCHANGED <<avars, bvars>>

(* --------------------------- delete_all_threads ------------------------ *)
PurgeIdle == [pc |-> "idle", items |-> <<>>, i |-> 0]

\* line 47 inside the try of lines 44-49: the record is deleted only when the
\* backend delete did not raise; a key already gone raises KeyError into the
\* same except clause
delete_all_threads_local(m, key, resp) ==
    IF resp = "ok" /\ MapHas(m, key) THEN MapDel(m, key) ELSE m

\* the purge is the startup hook's job (bot.py startup, lines 200-204): it runs
\* while no handler is in flight and the sweeper sleeps, and nothing else starts
\* until it has returned
Quiescent == sweep.pc = "sleep" /\ \A h \in Handlers : ~InFlight(task[h])

\* lines 43-45: snapshot list(chat_user_threads.items()) and await the first
\* backend delete; with no record, clear the heap and return
delete_all_threads_call ==
    /\ purge.pc = "idle"
    /\ Quiescent
    /\ IF chat_user_threads = <<>>
       THEN /\ thread_heap' = <<>>
            /\ UNCHANGED purge
       ELSE /\ purge' = [pc |-> "awaitDelete", items |-> chat_user_threads, i |-> 1]
            /\ UNCHANGED thread_heap
    /\ UNCHANGED <<now, objs, chat_user_threads, live, nextId, deleteIssued, task,
                   sweep, replaced, lastRes>>
    /\ UNCHANGED <<avars, bvars>>

\* lines 45-51: a backend delete answered or raised; go on with the next item of
\* the snapshot, and after the last one clear the heap and return
delete_all_threads_deleted ==
    /\ purge.pc = "awaitDelete"
    /\ LET item == purge.items[purge.i]
           thread_id == objs[item[2]].thread_id
       IN  \E resp \in DeleteResp(live, thread_id) :
             /\ live' = AfterBackendDelete(live, thread_id, resp)
             /\ chat_user_threads' = delete_all_threads_local(chat_user_threads, item[1], resp)
             /\ lastRes' = [lastRes EXCEPT ![item[1]] = NoRes]
             /\ IF purge.i < Len(purge.items)
                THEN /\ purge' = [purge EXCEPT !.i = @ + 1]
                     /\ UNCHANGED thread_heap
                ELSE /\ purge' = PurgeIdle
                     /\ thread_heap' = <<>>
    /\ UNCHANGED <<now, objs, nextId, deleteIssued, task, sweep, replaced>>
    /\ UNCHANGED <<avars, bvars>>

(* --------------------------------- clock ------------------------------- *)
Tick ==
    /\ now + TickHours <= MaxTime
    /\ now' = now + TickHours
    /\ lastRes' = [k \in RegistryKeys |-> NoRes]
    /\ task' = [h \in Handlers |-> [task[h] EXCEPT !.prev = NoRes]]
    /\ UNCHANGED <<objs, chat_user_threads, thread_heap, live, nextId, deleteIssued,
                   sweep, purge, replaced>>
    /\ UNCHANGED <<avars, bvars>>

(* =========================== message handling ========================== *)
(* ------------------------------ bounds --------------------------------- *)
\* the wall clock advances in steps of TickSeconds seconds up to MaxClock
TickSeconds == 60
MaxClock == 60
\* rate-limit checks counted in the windows of all users together before the
\* updates of a user stop arriving until that user's window has expired
MaxCount == 12
\* polls of one run that may find it still in progress within the timeout
MaxPolls == 1
\* texts, counted from the first of Contents, that the updates which reply to
\* a message carry
ReplyContents == 2
\* ThreadInfo objects bot.py allocates before the updates stop arriving
MaxBotObjs == 2

(* -------------------------- program constants -------------------------- *)
\* config.py: MAX_MESSAGE_LENGTH, ASSISTANT_TIMEOUT, RATE_LIMIT_MESSAGES,
\* RATE_LIMIT_WINDOW (the defaults of the environment variables)
MAX_MESSAGE_LENGTH == 10000
ASSISTANT_TIMEOUT == 120
RATE_LIMIT_MESSAGES == 10
RATE_LIMIT_WINDOW == 60

SenderIds == 1..NumSenders
ChatIds == 1..NumChats

\* user.username of the senders: 1 is alice, 2 is bob, 3 is carol, the others
\* have none (Python None; a Telegram username is never the empty string)
NoUsername == ""
UsernameOf(user_id) ==
    CASE user_id = 1 -> "alice"
      [] user_id = 2 -> "bob"
      [] user_id = 3 -> "carol"
      [] OTHER -> NoUsername

\* config.BANNED_USERS, config.BANNED_CHATS: id -> reason
BANNED_USERS == [u \in {2, 3} |-> IF u = 2 THEN "spam" ELSE "abuse"]
BANNED_CHATS == [c \in {2} |-> "flood"]

\* config.USERS and config.ALLOWED_CHATS are "*" (all) or a list
All == [all |-> TRUE, list |-> {}]
Only(list) == [all |-> FALSE, list |-> list]

\* the identity get_me() answers: bot_info.id and bot_info.username
BotId == 9
BotUsername == <<"M", "y", "B", "o", "t">>
NoBotInfo == [resolved |-> FALSE, id |-> 0, username |-> <<>>]
BotInfo == [resolved |-> TRUE, id |-> BotId, username |-> BotUsername]

(* --------------------------------- text -------------------------------- *)
\* a str as its first characters (body) followed by pad filler characters "x"
Str(body, pad) == [body |-> body, pad |-> pad]

\* len(text)
TextLen(text) == Len(text.body) + text.pad

\* text[p], p counted from 0
CharAt(text, p) == IF p < Len(text.body) THEN text.body[p + 1] ELSE "x"

Min(a, b) == IF a <= b THEN a ELSE b

\* text[start : stop] for start, stop >= 0: the slice is clamped to the text
Slice(text, start, stop) ==
    LET lo == Min(start, TextLen(text))
        hi == Min(stop, TextLen(text))
    IN  IF hi <= lo THEN <<>> ELSE [i \in 1..(hi - lo) |-> CharAt(text, lo + i - 1)]

\* str.lower() on the letters the texts use
LowerChar(c) ==
    CASE c = "M" -> "m"
      [] c = "Y" -> "y"
      [] c = "B" -> "b"
      [] c = "O" -> "o"
      [] c = "T" -> "t"
      [] OTHER -> c

Lower(s) == [i \in 1..Len(s) |-> LowerChar(s[i])]

\* a MessageEntity
Entity(type, offset, length) == [type |-> type, offset |-> offset, length |-> length]

\* the texts the updates carry, each with the entities Telegram attached
Contents ==
    << [text |-> Str(<<"h", "i">>, 0), entities |-> <<>>],
       [text |-> Str(<<"@", "m", "y", "b", "o", "t", " ", "h", "i">>, 0),
        entities |-> <<Entity("mention", 0, 6)>>],
       [text |-> Str(<<"@", "o", "t", "h", "e", "r">>, 0),
        entities |-> <<Entity("mention", 0, 6)>>],
       [text |-> Str(<<"@", "M", "y", "B", "o", "t">>, 0),
        entities |-> <<Entity("code", 0, 6)>>],
       [text |-> Str(<<"@", "o", "t", "h", "e", "r", " ", "@", "M", "Y", "B", "O", "T">>, 0),
        entities |-> <<Entity("mention", 0, 6), Entity("mention", 7, 6)>>],
       [text |-> Str(<<"@", "M", "y", "B", "o", "t">>, MAX_MESSAGE_LENGTH - 5),
        entities |-> <<Entity("mention", 0, 6)>>],
       [text |-> Str(<<"h", "i">>, MAX_MESSAGE_LENGTH - 2), entities |-> <<>>] >>

\* an update: the sender (None: no effective_user), the chat, the author of
\* the message it replies to (None: not a reply) and its text and entities;
\* the replies carry one of the first ReplyContents texts
Messages ==
    [user_id : SenderIds, chat_id : ChatIds,
     chat_type : {"private", "group"}, reply_to : {None},
     content : 1..Len(Contents)]
    \cup [user_id : SenderIds, chat_id : ChatIds,
          chat_type : {"private", "group"}, reply_to : {BotId, 1},
          content : 1..ReplyContents]
    \cup [user_id : {None}, chat_id : {1}, chat_type : {"group"}, reply_to : {None},
          content : {1}]

NoMessage == [user_id |-> None, chat_id |-> None, chat_type |-> "none",
              reply_to |-> None, content |-> 0]

Text(message) == Contents[message.content].text
Entities(message) == Contents[message.content].entities

(* ------------------------------ replies -------------------------------- *)
\* one message.reply_text call: what it says, the ban reason it carries and
\* whether the send answered or raised
Reply(kind, reason, send) == [kind |-> kind, reason |-> reason, ok |-> (send = "ok")]

SendResp == {"ok", "error"}

\* context.bot.send_chat_action: answers, raises Forbidden, or raises otherwise
TypingResp == {"ok", "forbidden", "error"}

(* -------------------------- should_bot_respond ------------------------- *)
\* lines 324-328: the message replies to a message authored by the bot
is_reply_to_bot(message, bi) == message.reply_to # None /\ message.reply_to = bi.id

is_mention_exact(message, bi) ==
    \E i \in 1..Len(Entities(message)) :
        LET entity == Entities(message)[i]
        IN  /\ entity.type = "mention"
            /\ Slice(Text(message), entity.offset, entity.offset + entity.length)
                   = <<"@">> \o bi.username

\* lines 330-337: some entity of type mention, sliced from the text, equals
\* "@" + bot username, both lowered
is_mention(message, bi) ==
    \E i \in 1..Len(Entities(message)) :
        LET entity == Entities(message)[i]
            username == Slice(Text(message), entity.offset, entity.offset + entity.length)
        IN  /\ entity.type = "mention"
            /\ Lower(username) = <<"@">> \o Lower(bi.username)

\* what a call did: the value returned, the replies attempted, the checks
\* control reached and the errors logged
Verdict(ret, replies, steps, errors) ==
    [ret |-> ret, replies |-> replies, steps |-> steps, errors |-> errors]

user_ban_reply_no_reason(user_id, send) == Reply("user_ban", "", send)

\* lines 293-296: the reply to a banned user carries the stored reason
user_ban_reply(user_id, send) == Reply("user_ban", BANNED_USERS[user_id], send)

\* lines 304-307 and 341-344: the reply in a banned chat carries the stored reason
chat_ban_reply(chat_id, send) == Reply("chat_ban", BANNED_CHATS[chat_id], send)

is_private_never(message) == FALSE

\* line 302: message.chat.type == ChatType.PRIVATE
is_private(message) == message.chat_type = "private"

bot_info_missing_ignored(bi) == FALSE

\* line 319: not bot_info
bot_info_missing(bi) == ~bi.resolved

chat_ban_never(addressed, chat_id) == FALSE

chat_ban_undeferred(addressed, chat_id) == chat_id \in DOMAIN BANNED_CHATS

\* line 340: the chat ban is announced only to a message addressed to the bot
chat_ban_deferred(addressed, chat_id) == addressed /\ chat_id \in DOMAIN BANNED_CHATS

\* bot.py should_bot_respond, lines 276-349; send is the answer of the
\* reply_text call, for the paths that make one
should_bot_respond(message, bi, allowed, send) ==
    IF message.user_id = None \/ message.chat_id = None
    THEN Verdict(FALSE, <<>>, {"structural"}, {})
    ELSE IF message.user_id \in DOMAIN BANNED_USERS
    THEN Verdict(FALSE, <<user_ban_reply(message.user_id, send)>>,
                 {"structural", "user_ban"}, {})
    ELSE IF is_private(message)
    THEN IF message.chat_id \in DOMAIN BANNED_CHATS
         THEN Verdict(FALSE, <<chat_ban_reply(message.chat_id, send)>>,
                      {"structural", "user_ban", "scope"}, {})
         ELSE Verdict(TRUE, <<>>, {"structural", "user_ban", "scope"}, {})
    ELSE IF ~allowed.all /\ message.chat_id \notin allowed.list
    THEN Verdict(FALSE, <<>>, {"structural", "user_ban", "scope"}, {})
    ELSE IF bot_info_missing(bi)
    THEN Verdict(FALSE, <<>>, {"structural", "user_ban", "scope"}, {"bot_info"})
    ELSE LET addressed == is_reply_to_bot(message, bi) \/ is_mention(message, bi)
         IN  IF chat_ban_deferred(addressed, message.chat_id)
             THEN Verdict(FALSE, <<chat_ban_reply(message.chat_id, send)>>,
                          {"structural", "user_ban", "scope", "addressing", "chat_ban"}, {})
             ELSE Verdict(addressed, <<>>,
                          {"structural", "user_ban", "scope", "addressing", "chat_ban"}, {})

(* ----------------------------- access_control -------------------------- *)
\* handlers.py imports should_bot_respond and check_rate_limit from
\* access_control (line 13), a module the repository does not hold. Both are
\* modelled from the specification of the admission pipeline.

\* access_control.should_bot_respond, called at handlers.py line 43: steps 1 to
\* 5 of the admission pipeline (structural check, user ban, scope by chat kind,
\* addressing, deferred chat ban) over the resolved bot identity, which are
\* the steps should_bot_respond of bot.py runs
access_control_should_bot_respond(message, bi, allowed, send) ==
    should_bot_respond(message, bi, allowed, send)

NoWindow == [count |-> 0, windowStart |-> 0]

check_rate_limit_off_by_one(rl, user_id, t) ==
    LET w == rl[user_id]
    IN  IF w.count = 0 \/ t - w.windowStart >= RATE_LIMIT_WINDOW
        THEN [allowed |-> TRUE,
              rate_limits |-> [rl EXCEPT ![user_id] = [count |-> 1, windowStart |-> t]]]
        ELSE [allowed |-> w.count + 1 < RATE_LIMIT_MESSAGES,
              rate_limits |-> [rl EXCEPT ![user_id].count = w.count + 1]]

\* access_control.check_rate_limit(user_id) at time t: the value returned and the rate state
\* left behind. No window, or a window that has expired, starts a fresh window
\* with count 1 and allows; otherwise the count goes up by one and the call
\* allows when the count is within the limit
check_rate_limit(rl, user_id, t) ==
    LET w == rl[user_id]
    IN  IF w.count = 0 \/ t - w.windowStart >= RATE_LIMIT_WINDOW
        THEN [allowed |-> TRUE,
              rate_limits |-> [rl EXCEPT ![user_id] = [count |-> 1, windowStart |-> t]]]
        ELSE [allowed |-> w.count + 1 <= RATE_LIMIT_MESSAGES,
              rate_limits |-> [rl EXCEPT ![user_id].count = w.count + 1]]

(* ----------------------------- handle_message -------------------------- *)
users_gate_open(users, username) == TRUE

\* handlers.py lines 51-52: the username allow-list lets the sender through
users_gate(users, username) ==
    users.all \/ (username # NoUsername /\ username \in users.list)

\* handlers.py line 68: the text is within the length limit
length_ok(text) == ~(TextLen(text) > MAX_MESSAGE_LENGTH)

\* how the admission part of handle_message ended: exit is "return", "raise"
\* (an exception on its way to the except clause of line 94) or "resolve"
\* (control is at the get_or_create_thread call of line 85)
Admission(exit, replies, steps, errors, rl) ==
    [exit |-> exit, replies |-> replies, steps |-> steps, errors |-> errors,
     rate_limits |-> rl]

Replied_then_raises(send) == "raise"

\* a reply_text call made by handle_message itself: it returns, or its
\* exception leaves the try block
Replied(send) == IF send = "ok" THEN "return" ELSE "raise"

\* handlers.py lines 25-85: handle_message from its start to the await of
\* get_or_create_thread, or to its return or raise before that; send is the
\* answer of the reply_text call and typing that of send_chat_action, for the
\* paths that make one
handle_message_admit(message, users, allowed, bi, rl, t, send, typing) ==
    IF message.user_id = None \/ message.chat_id = None
    THEN Admission("return", <<>>, {"structural"}, {}, rl)
    ELSE
    LET sbr == access_control_should_bot_respond(message, bi, allowed, send)
    IN  IF ~sbr.ret
        THEN Admission("return", sbr.replies, sbr.steps, sbr.errors, rl)
        ELSE
        IF ~users_gate(users, UsernameOf(message.user_id))
        THEN Admission(Replied(send), <<Reply("no_access", "", send)>>,
                       sbr.steps \cup {"users"}, {}, rl)
        ELSE
        LET rc == check_rate_limit(rl, message.user_id, t)
            steps == sbr.steps \cup {"users", "rate"}
        IN  IF ~rc.allowed
            THEN Admission(Replied(send), <<Reply("rate_limit", "", send)>>,
                           steps, {}, rc.rate_limits)
            ELSE
            IF TextLen(Text(message)) = 0
            THEN Admission("return", <<>>, steps \cup {"length"}, {}, rc.rate_limits)
            ELSE
            IF ~length_ok(Text(message))
            THEN Admission(Replied(send), <<Reply("too_long", "", send)>>,
                           steps \cup {"length"}, {}, rc.rate_limits)
            ELSE
            IF typing = "forbidden"
            THEN Admission("return", <<>>, steps \cup {"length", "typing"}, {},
                           rc.rate_limits)
            ELSE
            IF typing = "error"
            THEN Admission("raise", <<>>, steps \cup {"length", "typing"}, {},
                           rc.rate_limits)
            ELSE Admission("resolve", <<>>, steps \cup {"length", "typing", "resolve"},
                           {}, rc.rate_limits)

\* the unit of work that handles one update: the function that runs (fn), its
\* position (pc), the update (msg), the replies it attempted, the checks
\* control reached (steps), the errors it logged, its locals (thread_info,
\* thread_id), the backend calls it made, the value a should_bot_respond call
\* returned (ret) and whether an exception left the function (raised)
IdleUnit ==
    [pc |-> "idle", fn |-> "none", msg |-> NoMessage, replies |-> <<>>, steps |-> {},
     errors |-> {}, thread_info |-> None,
     thread_id |-> None, appends |-> 0, runs |-> 0, polls |-> 0, cancels |-> 0,
     typing |-> "none", status |-> "none", elapsed |-> 0, cancel |-> "none",
     failure |-> "none", ret |-> FALSE,
     raised |-> FALSE]

handle_message_except_unguarded(u, cause, send) ==
    [u EXCEPT !.pc = "done", !.failure = cause,
              !.replies = Append(@, Reply("failure", "", send)),
              !.errors = @ \cup {"handle_message"},
              !.raised = (send = "error")]

\* handlers.py lines 94-103: the except clause logs the exception, attempts the
\* generic failure reply and swallows an exception of that reply
handle_message_except(u, cause, send) ==
    [u EXCEPT !.pc = "done", !.failure = cause,
              !.replies = Append(@, Reply("failure", "", send)),
              !.errors = @ \cup {"handle_message"},
              !.raised = FALSE]

RECURSIVE Counted(_, _)
Counted(rl, n) == IF n = 0 THEN 0 ELSE rl[n].count + Counted(rl, n - 1)

\* the rate windows have room for one more counted check, or the sender's has expired
RateRoom(message) ==
    IF message.user_id = None THEN TRUE
    ELSE \/ Counted(rate_limits, NumSenders) < MaxCount
         \/ clock - rate_limits[message.user_id].windowStart >= RATE_LIMIT_WINDOW

\* the answers the reply_text call and the send_chat_action call of this update
\* can get; a call that is not made has no answer to choose ("ok" stands for it)
Probe(message) ==
    handle_message_admit(message, USERS, ALLOWED_CHATS, bot_info, rate_limits, clock,
                         "ok", "ok")
RepliesOf(message) == IF Probe(message).replies = <<>> THEN {"ok"} ELSE SendResp
TypingOf(message) == IF "typing" \in Probe(message).steps THEN TypingResp ELSE {"ok"}

\* handlers.py lines 23-85: an update arrives and handle_message runs to the
\* await of get_or_create_thread, or to its end
handle_message_call(message) ==
    /\ unit.pc = "idle"
    /\ RateRoom(message)
    /\ \E send \in RepliesOf(message), typing \in TypingOf(message),
          send_failure \in SendResp :
         LET a == handle_message_admit(message, USERS, ALLOWED_CHATS, bot_info,
                                       rate_limits, clock, send, typing)
             u == [IdleUnit EXCEPT !.fn = "handle_message", !.msg = message,
                                   !.replies = a.replies,
                                   !.steps = a.steps, !.errors = a.errors,
                                   !.typing = IF "typing" \in a.steps THEN typing
                                              ELSE "none"]
         IN  /\ rate_limits' = a.rate_limits
             /\ a.exit # "raise" => send_failure = "ok"
             /\ unit' = CASE a.exit = "resolve" -> [u EXCEPT !.pc = "awaitResolve"]
                          [] a.exit = "return" -> [u EXCEPT !.pc = "done"]
                          [] OTHER -> handle_message_except(
                                          u, IF a.replies = <<>> THEN "typing" ELSE "send",
                                          send_failure)
    /\ UNCHANGED <<USERS, ALLOWED_CHATS, bot_info, clock>>
    /\ UNCHANGED <<rvars, bvars>>

\* an awaited backend call answers or raises
CallResp == {"ok", "error"}

\* the key of the session of an update: (chat_id, user_id), lines 30 and 49
SessionKey(message) == <<message.chat_id, message.user_id>>

\* the handler whose get_or_create_thread call the unit awaits
Resolver(h) == task[h].fn = "get_or_create_thread"

\* handlers.py line 85: the send_chat_action await has answered and
\* handle_message calls get_or_create_thread(chat_id, user_id), which runs to
\* its first await
handle_message_resolve ==
    /\ unit.pc = "awaitResolve"
    /\ \A g \in Handlers : ~Resolver(g)
    /\ \E h \in Handlers : get_or_create_thread_call(h, SessionKey(unit.msg))

\* handlers.py lines 85-88: get_or_create_thread returned a session id, with
\* which process_with_assistant runs to its first await, or it raised
handle_message_resolved ==
    /\ unit.pc = "awaitResolve"
    /\ \E h \in Handlers, send \in SendResp :
         /\ Resolver(h)
         /\ task[h].pc = "done"
         /\ unit' = IF ~task[h].raised
                    THEN [unit EXCEPT !.pc = "awaitAppend", !.thread_id = task[h].ret]
                    ELSE handle_message_except(unit, "resolve", send)
         /\ task' = [g \in Handlers |->
                       IF g = h THEN IdleTask
                       ELSE [task[g] EXCEPT !.conc = @ \ {h}]]
    /\ UNCHANGED <<USERS, ALLOWED_CHATS, bot_info, rate_limits, clock>>
    /\ UNCHANGED <<now, objs, chat_user_threads, thread_heap, live, nextId,
                   deleteIssued, sweep, purge, replaced, lastRes>>
    /\ UNCHANGED bvars

(* ------------------------ process_with_assistant ----------------------- *)
\* lines 109-111: client.beta.threads.messages.create answered or raised
process_with_assistant_appended ==
    /\ unit.pc = "awaitAppend"
    /\ \E resp \in CallResp, send \in SendResp :
         unit' = IF resp = "ok"
                 THEN [unit EXCEPT !.pc = "awaitRun", !.appends = @ + 1]
                 ELSE handle_message_except([unit EXCEPT !.appends = @ + 1], "append", send)
    /\ UNCHANGED <<USERS, ALLOWED_CHATS, bot_info, rate_limits, clock>>
    /\ UNCHANGED <<rvars, bvars>>

\* lines 114-119: client.beta.threads.runs.create answered or raised; the
\* polling starts with start_time = now
process_with_assistant_started ==
    /\ unit.pc = "awaitRun"
    /\ \E resp \in CallResp, send \in SendResp :
         unit' = IF resp = "ok"
                 THEN [unit EXCEPT !.pc = "awaitPoll", !.runs = @ + 1, !.elapsed = 0]
                 ELSE handle_message_except([unit EXCEPT !.runs = @ + 1], "run", send)
    /\ UNCHANGED <<USERS, ALLOWED_CHATS, bot_info, rate_limits, clock>>
    /\ UNCHANGED <<rvars, bvars>>

\* runs.retrieve raises, or answers a run that is completed (completed_at set),
\* failed, cancelled, expired or still in progress
RetrieveResp == {"error", "completed", "failed", "cancelled", "expired", "in_progress"}

\* the seconds since start_time read at line 138: time only moves forward
ElapsedReadings(elapsed) ==
    {e \in {ASSISTANT_TIMEOUT, ASSISTANT_TIMEOUT + 1} : e >= elapsed}

\* lines 128-136: run.status is failed, cancelled or expired
run_ended(status) == status \in {"failed", "cancelled", "expired"}

\* line 139: elapsed > ASSISTANT_TIMEOUT
timed_out(elapsed) == elapsed > ASSISTANT_TIMEOUT

\* lines 120-148: one turn of the polling loop, from the answer of runs.retrieve
\* to the next await: the next retrieve after the sleep, the cancel call on a
\* timeout, or messages.list on completion
process_with_assistant_polled ==
    /\ unit.pc = "awaitPoll"
    /\ \E resp \in RetrieveResp, e \in ElapsedReadings(unit.elapsed), send \in SendResp :
         LET u == [unit EXCEPT !.polls = @ + 1, !.status = resp]
         IN  CASE resp = "error" -> unit' = handle_message_except(u, "poll", send)
               [] resp = "completed" -> unit' = [u EXCEPT !.pc = "awaitList"]
               [] run_ended(resp) -> unit' = handle_message_except(u, resp, send)
               [] OTHER ->
                      IF timed_out(e)
                      THEN unit' = [u EXCEPT !.pc = "awaitCancel", !.elapsed = e,
                                             !.cancels = @ + 1]
                      ELSE /\ unit.polls < MaxPolls
                           /\ unit' = [u EXCEPT !.elapsed = e]
    /\ UNCHANGED <<USERS, ALLOWED_CHATS, bot_info, rate_limits, clock>>
    /\ UNCHANGED <<rvars, bvars>>

\* lines 140-146: runs.cancel answered or raised (swallowed), then TimeoutError
process_with_assistant_cancelled ==
    /\ unit.pc = "awaitCancel"
    /\ \E resp \in CallResp, send \in SendResp :
         unit' = handle_message_except([unit EXCEPT !.cancel = resp], "timeout", send)
    /\ UNCHANGED <<USERS, ALLOWED_CHATS, bot_info, rate_limits, clock>>
    /\ UNCHANGED <<rvars, bvars>>

\* lines 151-152 and handlers.py lines 88-92: messages.list answered or raised;
\* the cleaned response goes out with reply_text
process_with_assistant_listed ==
    /\ unit.pc = "awaitList"
    /\ \E resp \in CallResp, send \in SendResp :
         unit' = IF resp = "ok"
                 THEN [unit EXCEPT !.pc = "awaitReply"]
                 ELSE handle_message_except(unit, "list", send)
    /\ UNCHANGED <<USERS, ALLOWED_CHATS, bot_info, rate_limits, clock>>
    /\ UNCHANGED <<rvars, bvars>>

\* handlers.py line 92: the reply with the response was sent or raised
handle_message_replied ==
    /\ unit.pc = "awaitReply"
    /\ \E send \in SendResp, send_failure \in SendResp :
         LET u == [unit EXCEPT !.replies = Append(@, Reply("answer", "", send))]
         IN  unit' = IF send = "ok"
                     THEN [u EXCEPT !.pc = "done"]
                     ELSE handle_message_except(u, "send", send_failure)
    /\ UNCHANGED <<USERS, ALLOWED_CHATS, bot_info, rate_limits, clock>>
    /\ UNCHANGED <<rvars, bvars>>

\* handle_message has returned: the dispatcher takes the next update
handle_message_return ==
    /\ unit.pc = "done"
    /\ unit' = IdleUnit
    /\ UNCHANGED <<USERS, ALLOWED_CHATS, bot_info, rate_limits, clock>>
    /\ UNCHANGED <<rvars, bvars>>

\* the bot identity access_control.should_bot_respond reads is resolved: until
\* then the addressing check fails closed
bot_identity_resolved ==
    /\ unit.pc = "idle"
    /\ ~bot_info.resolved
    /\ bot_info' = BotInfo
    /\ UNCHANGED <<USERS, ALLOWED_CHATS, rate_limits, clock, unit>>
    /\ UNCHANGED <<rvars, bvars>>

\* time passes between two updates; the clock is read only by the rate
\* limiter, at line 57
ClockTick ==
    /\ unit.pc = "idle"
    /\ clock + TickSeconds <= MaxClock
    /\ clock' = clock + TickSeconds
    /\ UNCHANGED <<USERS, ALLOWED_CHATS, bot_info, rate_limits, unit>>
    /\ UNCHANGED <<rvars, bvars>>

(* ======================= the application of bot.py ===================== *)
(* bot.py is the program main() starts (lines 504-530). It registers its   *)
(* own handle_message (line 519) and reset_thread (line 516), starts the   *)
(* cleanup job (line 526) and runs startup before the first update (line   *)
(* 509). It keeps its own registry, user_threads and thread_heap (lines    *)
(* 141-142), keyed by user id, and imports none of handlers.py and         *)
(* thread_manager.py. The handlers of the updates run one after another;   *)
(* the cleanup job runs beside them.                                       *)
(* ----------------------------------------------------------------------- *)
\* dataclass ThreadInfo(thread_id, last_access, user_id) of bot.py, lines 130-137
bot_ThreadInfo(thread_id, last_access, user_id) ==
    [thread_id |-> thread_id, last_access |-> last_access, user_id |-> user_id]

\* bot.py lines 141-142: the registry after import
BotRegistryInit ==
    /\ bot_objs = <<>>
    /\ user_threads = <<>>
    /\ bot_thread_heap = <<>>
    /\ bot_sweep = [pc |-> "sleep", current_time |-> 0, oldest |-> None]

\* bot.py update_thread_access(user_id, thread_id), lines 251-264: a new
\* ThreadInfo replaces the user's record in the map and is pushed on the heap,
\* whatever the map held
bot_update_thread_access(os, m, h, user_id, thread_id, current_time) ==
    LET thread_info == Len(os) + 1
        os2 == Append(os, bot_ThreadInfo(thread_id, current_time, user_id))
    IN  [objs |-> os2,
         map |-> MapPut(m, user_id, thread_info),
         heap |-> HeapPush(os2, h, thread_info)]

\* bot.py check_thread_exists, lines 267-273: True when the list call
\* answered, False when it raised
bot_check_thread_exists(resp) == resp = "ok"

(* ------------------------------- startup ------------------------------- *)
\* bot.py init_bot, lines 474-478: get_me() answered
init_bot ==
    /\ unit.pc = "idle"
    /\ ~bot_info.resolved
    /\ bot_info' = BotInfo
    /\ UNCHANGED <<USERS, ALLOWED_CHATS, rate_limits, clock, unit>>
    /\ UNCHANGED <<rvars, bvars>>

\* bot.py delete_all_threads, lines 145-161, from item i of the snapshot
\* list(user_threads.items()) on: each record's session is deleted on the
\* backend and, when that call answered, the record leaves the map; resp[i] is
\* the answer of the delete call of item i
RECURSIVE bot_delete_all_threads_from(_, _, _, _, _, _)
bot_delete_all_threads_from(os, items, i, m, lv, resp) ==
    IF i > Len(items)
    THEN [map |-> m, live |-> lv, heap |-> <<>>]
    ELSE LET user_id == items[i][1]
             thread_id == os[items[i][2]].thread_id
         IN  IF resp[i] = "ok"
             THEN bot_delete_all_threads_from(os, items, i + 1, MapDel(m, user_id),
                                              lv \ {thread_id}, resp)
             ELSE bot_delete_all_threads_from(os, items, i + 1, m, lv, resp)

bot_delete_all_threads(os, m, lv, resp) == bot_delete_all_threads_from(os, m, 1, m, lv, resp)

\* bot.py startup, lines 200-204, the post_init hook of the application:
\* init_bot, then delete_all_threads; no handler and no job runs before it
\* has returned
startup ==
    /\ unit.pc = "idle"
    /\ ~bot_info.resolved
    /\ bot_info' = BotInfo
    /\ \E resp \in [1..Len(user_threads) -> {"ok", "error"}] :
         /\ \A i \in 1..Len(user_threads) :
                resp[i] \in DeleteResp(live, bot_objs[user_threads[i][2]].thread_id)
         /\ LET r == bot_delete_all_threads(bot_objs, user_threads, live, resp)
            IN  /\ user_threads' = r.map
                /\ live' = r.live
                /\ bot_thread_heap' = r.heap
    /\ UNCHANGED <<bot_objs, bot_sweep>>
    /\ UNCHANGED <<USERS, ALLOWED_CHATS, rate_limits, clock, unit>>
    /\ UNCHANGED <<now, objs, chat_user_threads, thread_heap, nextId, deleteIssued,
                   task, sweep, purge, replaced, lastRes>>

(* ---------------------------- handle_message --------------------------- *)
\* bot.py line 409: USERS != "*" and username not in USERS rejects the sender
bot_users_gate(users, username) == users.all \/ username \in users.list

\* how the admission part of bot.py's handle_message ended: exit is "return",
\* "raise" (an exception on its way to the except clause of line 460) or
\* "resolve" (control is at the session lookup of line 418)
BotAdmission(exit, replies, steps, errors) ==
    [exit |-> exit, replies |-> replies, steps |-> steps, errors |-> errors]

\* bot.py lines 383-415: handle_message from its start to the session lookup,
\* or to its return or raise before that; send is the answer of the reply_text
\* call and typing that of send_chat_action, for the paths that make one.
\* There is no rate limit and no length check on this path. The update_chat
\* call of line 392 records the chat in chat_manager, a module the repository
\* does not hold, and is taken to return
bot_handle_message_admit(message, users, allowed, bi, send, typing) ==
    IF message.user_id = None \/ message.chat_id = None
    THEN BotAdmission("return", <<>>, {"structural"}, {})
    ELSE
    LET sbr == should_bot_respond(message, bi, allowed, send)
    IN  IF ~sbr.ret
        THEN BotAdmission("return", sbr.replies, sbr.steps, sbr.errors)
        ELSE
        IF ~bot_users_gate(users, UsernameOf(message.user_id))
        THEN BotAdmission(IF send = "ok" THEN "return" ELSE "raise",
                          <<Reply("no_access", "", send)>>, sbr.steps \cup {"users"}, {})
        ELSE
        IF typing = "forbidden"
        THEN BotAdmission("return", <<>>, sbr.steps \cup {"users", "typing"}, {})
        ELSE
        IF typing = "error"
        THEN BotAdmission("raise", <<>>, sbr.steps \cup {"users", "typing"}, {})
        ELSE BotAdmission("resolve", <<>>, sbr.steps \cup {"users", "typing", "resolve"}, {})

\* bot.py lines 460-471: the except clause logs the exception, attempts the
\* generic failure reply and swallows an exception of that reply
bot_handle_message_except(u, cause, send) ==
    [u EXCEPT !.pc = "done", !.failure = cause,
              !.replies = Append(@, Reply("failure", "", send)),
              !.errors = @ \cup {"handle_message"},
              !.raised = FALSE]

\* the answers the reply_text call and the send_chat_action call of this update
\* can get; a call that is not made has no answer to choose ("ok" stands for it)
BotProbe(message) ==
    bot_handle_message_admit(message, USERS, ALLOWED_CHATS, bot_info, "ok", "ok")
BotRepliesOf(message) == IF BotProbe(message).replies = <<>> THEN {"ok"} ELSE SendResp
BotTypingOf(message) == IF "typing" \in BotProbe(message).steps THEN TypingResp ELSE {"ok"}

\* the unit runs handle_message of bot.py
InBotHandler == unit.fn = "handle_message"

\* the variables no step of bot.py touches: the module state of
\* thread_manager.py and of the handlers.py side
BotUnchanged ==
    /\ UNCHANGED <<objs, chat_user_threads, thread_heap, deleteIssued, task, sweep,
                   purge, replaced, lastRes>>
    /\ UNCHANGED <<USERS, ALLOWED_CHATS, bot_info, rate_limits, clock>>

\* bot.py lines 383-415: the dispatcher calls handle_message with an update,
\* and it runs to the session lookup of line 418, or to its end
bot_handle_message_call(message) ==
    /\ unit.pc = "idle"
    /\ bot_info.resolved
    /\ Len(bot_objs) < MaxBotObjs
    /\ \E send \in BotRepliesOf(message), typing \in BotTypingOf(message),
          send_failure \in SendResp :
         LET a == bot_handle_message_admit(message, USERS, ALLOWED_CHATS, bot_info,
                                           send, typing)
             u == [IdleUnit EXCEPT !.fn = "handle_message", !.msg = message,
                                   !.replies = a.replies,
                                   !.steps = a.steps, !.errors = a.errors,
                                   !.typing = IF "typing" \in a.steps THEN typing
                                              ELSE "none"]
         IN  /\ a.exit # "raise" => send_failure = "ok"
             /\ unit' = CASE a.exit = "resolve" -> [u EXCEPT !.pc = "awaitResolve"]
                          [] a.exit = "return" -> [u EXCEPT !.pc = "done"]
                          [] OTHER -> bot_handle_message_except(
                                          u, IF a.replies = <<>> THEN "typing" ELSE "send",
                                          send_failure)
    /\ UNCHANGED <<now, live, nextId>>
    /\ UNCHANGED bvars
    /\ BotUnchanged

\* bot.py lines 418-419: the send_chat_action await has answered; the record of
\* the sender is read from user_threads and the validity check of its session,
\* or with no record the create call, is awaited
bot_handle_message_lookup ==
    /\ InBotHandler
    /\ unit.pc = "awaitResolve"
    /\ LET thread_info == MapGet(user_threads, unit.msg.user_id)
       IN  unit' = IF thread_info = None
                   THEN [unit EXCEPT !.pc = "awaitCreate"]
                   ELSE [unit EXCEPT !.pc = "awaitCheck", !.thread_info = thread_info]
    /\ UNCHANGED <<now, live, nextId>>
    /\ UNCHANGED bvars
    /\ BotUnchanged

\* bot.py lines 419 and 424-426: check_thread_exists answered; a session that
\* exists is kept and update_thread_access records the access, one that does
\* not is replaced by a create call
bot_handle_message_checked ==
    /\ InBotHandler
    /\ unit.pc = "awaitCheck"
    /\ LET thread_id == bot_objs[unit.thread_info].thread_id
       IN  \E resp \in ListResp(live, thread_id) :
             IF bot_check_thread_exists(resp)
             THEN LET r == bot_update_thread_access(bot_objs, user_threads, bot_thread_heap,
                                                    unit.msg.user_id, thread_id, now)
                  IN  /\ bot_objs' = r.objs
                      /\ user_threads' = r.map
                      /\ bot_thread_heap' = r.heap
                      /\ unit' = [unit EXCEPT !.pc = "awaitAppend", !.thread_id = thread_id]
             ELSE /\ unit' = [unit EXCEPT !.pc = "awaitCreate"]
                  /\ UNCHANGED <<bot_objs, user_threads, bot_thread_heap>>
    /\ UNCHANGED <<now, live, nextId, bot_sweep>>
    /\ BotUnchanged

\* bot.py lines 420-423: client.beta.threads.create answered, and
\* update_thread_access registers the new session, or it raised
bot_handle_message_created ==
    /\ InBotHandler
    /\ unit.pc = "awaitCreate"
    /\ \E resp \in CreateResp(nextId), send \in SendResp :
         IF resp = "ok"
         THEN LET thread_id == nextId + 1
                  r == bot_update_thread_access(bot_objs, user_threads, bot_thread_heap,
                                                unit.msg.user_id, thread_id, now)
              IN  /\ nextId' = thread_id
                  /\ live' = live \cup {thread_id}
                  /\ bot_objs' = r.objs
                  /\ user_threads' = r.map
                  /\ bot_thread_heap' = r.heap
                  /\ unit' = [unit EXCEPT !.pc = "awaitAppend", !.thread_id = thread_id]
         ELSE /\ unit' = bot_handle_message_except(unit, "create", send)
              /\ UNCHANGED <<nextId, live, bot_objs, user_threads, bot_thread_heap>>
    /\ UNCHANGED <<now, bot_sweep>>
    /\ BotUnchanged

\* bot.py lines 429-431: client.beta.threads.messages.create answered or raised
bot_handle_message_appended ==
    /\ InBotHandler
    /\ unit.pc = "awaitAppend"
    /\ \E resp \in CallResp, send \in SendResp :
         unit' = IF resp = "ok"
                 THEN [unit EXCEPT !.pc = "awaitRun", !.appends = @ + 1]
                 ELSE bot_handle_message_except([unit EXCEPT !.appends = @ + 1],
                                                "append", send)
    /\ UNCHANGED <<now, live, nextId>>
    /\ UNCHANGED bvars
    /\ BotUnchanged

\* bot.py lines 434-436: client.beta.threads.runs.create answered or raised
bot_handle_message_started ==
    /\ InBotHandler
    /\ unit.pc = "awaitRun"
    /\ \E resp \in CallResp, send \in SendResp :
         unit' = IF resp = "ok"
                 THEN [unit EXCEPT !.pc = "awaitPoll", !.runs = @ + 1, !.elapsed = 0]
                 ELSE bot_handle_message_except([unit EXCEPT !.runs = @ + 1], "run", send)
    /\ UNCHANGED <<now, live, nextId>>
    /\ UNCHANGED bvars
    /\ BotUnchanged

\* bot.py lines 439-445: one turn of the polling loop. runs.retrieve raised, or
\* answered a run with completed_at set, which ends the loop; any other run,
\* whatever its status and however long the run has lasted, is polled again
\* after the sleep. elapsed is the time since the run was started, which the
\* loop does not read
bot_handle_message_polled ==
    /\ InBotHandler
    /\ unit.pc = "awaitPoll"
    /\ \E resp \in RetrieveResp, e \in ElapsedReadings(unit.elapsed), send \in SendResp :
         LET u == [unit EXCEPT !.polls = @ + 1, !.status = resp]
         IN  CASE resp = "error" -> unit' = bot_handle_message_except(u, "poll", send)
               [] resp = "completed" -> unit' = [u EXCEPT !.pc = "awaitList"]
               [] OTHER -> /\ unit.polls < MaxPolls
                           /\ unit' = [u EXCEPT !.elapsed = e]
    /\ UNCHANGED <<now, live, nextId>>
    /\ UNCHANGED bvars
    /\ BotUnchanged

\* bot.py lines 448-455: messages.list answered or raised; the cleaned response
\* goes out with reply_text
bot_handle_message_listed ==
    /\ InBotHandler
    /\ unit.pc = "awaitList"
    /\ \E resp \in CallResp, send \in SendResp :
         unit' = IF resp = "ok"
                 THEN [unit EXCEPT !.pc = "awaitReply"]
                 ELSE bot_handle_message_except(unit, "list", send)
    /\ UNCHANGED <<now, live, nextId>>
    /\ UNCHANGED bvars
    /\ BotUnchanged

\* bot.py line 458: the reply with the response was sent or raised
bot_handle_message_replied ==
    /\ InBotHandler
    /\ unit.pc = "awaitReply"
    /\ \E send \in SendResp, send_failure \in SendResp :
         LET u == [unit EXCEPT !.replies = Append(@, Reply("answer", "", send))]
         IN  unit' = IF send = "ok"
                     THEN [u EXCEPT !.pc = "done"]
                     ELSE bot_handle_message_except(u, "send", send_failure)
    /\ UNCHANGED <<now, live, nextId>>
    /\ UNCHANGED bvars
    /\ BotUnchanged

(* ------------------------------ reset_thread --------------------------- *)
\* bot.py lines 190-198: a reply_text call of reset_thread; when it raises, the
\* except clause logs the error and sends the failure reply, whose own
\* exception leaves reset_thread
reset_thread_reply(u, kind, send, send_failure) ==
    IF send = "ok"
    THEN [u EXCEPT !.pc = "done", !.replies = Append(@, Reply(kind, "", send))]
    ELSE [u EXCEPT !.pc = "done",
                   !.replies = @ \o <<Reply(kind, "", send),
                                      Reply("reset_failed", "", send_failure)>>,
                   !.errors = @ \cup {"reset_thread"},
                   !.failure = "send",
                   !.raised = (send_failure = "error")]

\* bot.py lines 164-172 and 192: the dispatcher calls reset_thread for a /reset
\* of user_id; with a record the backend delete of its session is awaited,
\* with none the sender is told so
reset_thread_call(user_id) ==
    /\ unit.pc = "idle"
    /\ bot_info.resolved
    /\ LET thread_info == MapGet(user_threads, user_id)
           u == [IdleUnit EXCEPT !.fn = "reset_thread",
                                 !.msg = [NoMessage EXCEPT !.user_id = user_id]]
       IN  IF thread_info # None
           THEN unit' = [u EXCEPT !.pc = "awaitDelete", !.thread_info = thread_info]
           ELSE \E send \in SendResp, send_failure \in SendResp :
                  /\ send = "ok" => send_failure = "ok"
                  /\ unit' = reset_thread_reply(u, "no_dialog", send, send_failure)
    /\ UNCHANGED <<now, live, nextId>>
    /\ UNCHANGED bvars
    /\ BotUnchanged

\* bot.py lines 172-190: the backend delete answered or raised (logged); the
\* user's record leaves the map when it is still there, and the sender is told
\* the history is cleared
reset_thread_deleted ==
    /\ unit.fn = "reset_thread"
    /\ unit.pc = "awaitDelete"
    /\ LET thread_id == bot_objs[unit.thread_info].thread_id
           user_id == unit.msg.user_id
       IN  \E resp \in DeleteResp(live, thread_id), send \in SendResp,
              send_failure \in SendResp :
             /\ send = "ok" => send_failure = "ok"
             /\ live' = AfterBackendDelete(live, thread_id, resp)
             /\ user_threads' = IF MapHas(user_threads, user_id)
                                THEN MapDel(user_threads, user_id)
                                ELSE user_threads
             /\ unit' = reset_thread_reply(unit, "cleared", send, send_failure)
    /\ UNCHANGED <<now, nextId, bot_objs, bot_thread_heap, bot_sweep>>
    /\ BotUnchanged

\* a handler of bot.py has returned: the dispatcher takes the next update
bot_handler_return ==
    /\ unit.pc = "done"
    /\ unit' = IdleUnit
    /\ UNCHANGED <<now, live, nextId>>
    /\ UNCHANGED bvars
    /\ BotUnchanged

(* --------------------------- cleanup_old_threads ----------------------- *)
\* bot.py lines 219-222: the oldest heap entry is still within its lifetime
bot_within_lifetime(os, oldest, current_time) ==
    current_time - os[oldest].last_access <= THREAD_LIFETIME_HOURS

\* bot.py lines 214-228: the inner while loop from its head to its next await
\* (the backend delete of the popped entry) or to its end (empty heap, or
\* break)
bot_cleanup_loop(os, h, current_time) ==
    IF h = <<>> \/ bot_within_lifetime(os, h[1], current_time)
    THEN [sweep |-> [pc |-> "sleep", current_time |-> 0, oldest |-> None], heap |-> h]
    ELSE [sweep |-> [pc |-> "awaitDelete", current_time |-> current_time, oldest |-> h[1]],
          heap |-> HeapPopRest(os, h)]

\* bot.py lines 209-228: the cleanup job wakes from its sleep and takes
\* current_time
bot_cleanup_old_threads_wake ==
    /\ bot_sweep.pc = "sleep"
    /\ bot_info.resolved
    /\ LET r == bot_cleanup_loop(bot_objs, bot_thread_heap, now)
       IN  /\ bot_sweep' = r.sweep
           /\ bot_thread_heap' = r.heap
    /\ UNCHANGED <<now, live, nextId, bot_objs, user_threads, unit>>
    /\ BotUnchanged

\* bot.py lines 227-243: the backend delete of the popped entry answered or
\* raised; the record of the entry's user leaves the map, whichever session it
\* holds, and the loop goes on
bot_cleanup_old_threads_deleted ==
    /\ bot_sweep.pc = "awaitDelete"
    /\ LET oldest_thread == bot_objs[bot_sweep.oldest]
       IN  \E resp \in DeleteResp(live, oldest_thread.thread_id) :
             LET r == bot_cleanup_loop(bot_objs, bot_thread_heap, bot_sweep.current_time)
             IN  /\ live' = AfterBackendDelete(live, oldest_thread.thread_id, resp)
                 /\ user_threads' = IF MapHas(user_threads, oldest_thread.user_id)
                                    THEN MapDel(user_threads, oldest_thread.user_id)
                                    ELSE user_threads
                 /\ bot_sweep' = r.sweep
                 /\ bot_thread_heap' = r.heap
    /\ UNCHANGED <<now, nextId, bot_objs, unit>>
    /\ BotUnchanged

\* datetime.now() moves on between the steps of bot.py
BotTick ==
    /\ now + TickHours <= MaxTime
    /\ now' = now + TickHours
    /\ UNCHANGED <<live, nextId, unit>>
    /\ UNCHANGED bvars
    /\ BotUnchanged

(* ---------------------------- should_bot_respond ----------------------- *)
\* bot.py lines 276-349 called with a message, as line 402 calls it: the value
\* returned, the reply attempted on the way and the error logged
should_bot_respond_call(message) ==
    /\ unit.pc = "idle"
    /\ \E send \in SendResp :
         LET v == should_bot_respond(message, bot_info, ALLOWED_CHATS, send)
         IN  /\ v.replies = <<>> => send = "ok"
             /\ unit' = [IdleUnit EXCEPT !.pc = "done", !.fn = "should_bot_respond",
                                         !.msg = message, !.replies = v.replies,
                                         !.steps = v.steps, !.errors = v.errors,
                                         !.ret = v.ret]
    /\ UNCHANGED <<USERS, ALLOWED_CHATS, bot_info, rate_limits, clock>>
    /\ UNCHANGED <<rvars, bvars>>

\* the call has returned
should_bot_respond_return ==
    /\ unit.fn = "should_bot_respond"
    /\ unit.pc = "done"
    /\ unit' = IdleUnit
    /\ UNCHANGED <<USERS, ALLOWED_CHATS, bot_info, rate_limits, clock>>
    /\ UNCHANGED <<rvars, bvars>>

(* ----------------------------- specification --------------------------- *)
Init ==
    /\ now = 0
    /\ objs = <<>>
    /\ chat_user_threads = <<>>
    /\ thread_heap = <<>>
    /\ live = {}
    /\ nextId = 0
    /\ deleteIssued = {}
    /\ task = [h \in Handlers |-> IdleTask]
    /\ sweep = SweepSleep
    /\ purge = PurgeIdle
    /\ replaced = {}
    /\ lastRes = [k \in RegistryKeys |-> NoRes]
    /\ USERS = All
    /\ ALLOWED_CHATS = All
    /\ bot_info = NoBotInfo
    /\ rate_limits = [u \in SenderIds |-> NoWindow]
    /\ clock = 0
    /\ unit = IdleUnit
    /\ BotRegistryInit

Resolve == \E h \in Handlers : \E k \in Keys : get_or_create_thread_call(h, k)
Checked == \E h \in Handlers : get_or_create_thread_checked(h)
Created == \E h \in Handlers : get_or_create_thread_created(h)
Reset == \E h \in Handlers : \E k \in Keys : delete_user_thread_call(h, k)
ResetDeleted == \E h \in Handlers : delete_user_thread_deleted(h)
Return == \E h \in Handlers : handler_return(h)

Next ==
    \/ Resolve
    \/ Checked
    \/ Created
    \/ Reset
    \/ ResetDeleted
    \/ Return
    \/ cleanup_old_threads_wake
    \/ cleanup_old_threads_deleted
    \/ delete_all_threads_call
    \/ delete_all_threads_deleted
    \/ Tick

Spec == Init /\ [][Next]_vars

(* ----------------- specification of the message handling --------------- *)
\* handle_message of src/src/handlers.py on the updates it is called with, one
\* at a time, with the session registry of thread_manager.py behind its
\* get_or_create_thread call: the call reads and changes the registry in the
\* steps of get_or_create_thread, between which the unit is suspended. The
\* other users of the registry (reset, sweeper, purge) run against that call
\* in Spec. The repository holds no main that registers this handler, and the
\* should_bot_respond and check_rate_limit it calls are those of
\* access_control; the program that main() of bot.py starts is BotSpec.

\* the configurations the deployments use: every username and every chat, or
\* a list of them
UsersSettings == {All, Only({"alice"}), Only({"carol"})}
AllowedChatsSettings == {All, Only({1})}

\* the session registry as it is after construction
RegistryInit ==
    /\ now = 0
    /\ objs = <<>>
    /\ chat_user_threads = <<>>
    /\ thread_heap = <<>>
    /\ live = {}
    /\ nextId = 0
    /\ deleteIssued = {}
    /\ task = [h \in Handlers |-> IdleTask]
    /\ sweep = SweepSleep
    /\ purge = PurgeIdle
    /\ replaced = {}
    /\ lastRes = [k \in RegistryKeys |-> NoRes]

\* the state of access_control after import: no bot identity, no rate window
AccessControlInit ==
    /\ bot_info = NoBotInfo
    /\ rate_limits = [u \in SenderIds |-> NoWindow]

AdmitInit ==
    /\ RegistryInit
    /\ BotRegistryInit
    /\ USERS \in UsersSettings
    /\ ALLOWED_CHATS \in AllowedChatsSettings
    /\ AccessControlInit
    /\ clock = 0
    /\ unit = IdleUnit

\* the updates on which the steps of handle_message differ: a plain text, a
\* mention of the bot and an over-long mention of the bot, and as a reply the
\* plain text; the other texts differ only inside should_bot_respond, which
\* RespondSpec and BotSpec run on every message
HandlerMessages ==
    {m \in Messages : m.content \in {1, 2, 6} /\ (m.reply_to # None => m.content = 1)}

Receive == \E message \in HandlerMessages : handle_message_call(message)

AdmitNext ==
    \/ Receive
    \/ handle_message_resolve
    \/ Checked
    \/ Created
    \/ handle_message_resolved
    \/ process_with_assistant_appended
    \/ process_with_assistant_started
    \/ process_with_assistant_polled
    \/ process_with_assistant_cancelled
    \/ process_with_assistant_listed
    \/ handle_message_replied
    \/ handle_message_return
    \/ bot_identity_resolved
    \/ ClockTick

AdmitSpec == AdmitInit /\ [][AdmitNext]_vars

(* ---------------- specification of the application of bot.py ----------- *)
\* the program after import: bot_info is None (line 108), the registry is
\* empty, and the settings are those the deployments use
BotInit ==
    /\ RegistryInit
    /\ BotRegistryInit
    /\ USERS \in UsersSettings
    /\ ALLOWED_CHATS \in AllowedChatsSettings
    /\ bot_info = NoBotInfo
    /\ rate_limits = [u \in SenderIds |-> NoWindow]
    /\ clock = 0
    /\ unit = IdleUnit

\* main(), lines 504-530: the message handler of line 519 and the /reset
\* handler of line 516 on the updates of the senders. The /chatinfo handler
\* of line 514 replies with the identifiers of the chat and the sender and
\* touches none of the state
BotReceive == \E message \in Messages : bot_handle_message_call(message)
BotReset == \E user_id \in SenderIds : reset_thread_call(user_id)

BotNext ==
    \/ startup
    \/ BotReceive
    \/ bot_handle_message_lookup
    \/ bot_handle_message_checked
    \/ bot_handle_message_created
    \/ bot_handle_message_appended
    \/ bot_handle_message_started
    \/ bot_handle_message_polled
    \/ bot_handle_message_listed
    \/ bot_handle_message_replied
    \/ BotReset
    \/ reset_thread_deleted
    \/ bot_handler_return
    \/ bot_cleanup_old_threads_wake
    \/ bot_cleanup_old_threads_deleted
    \/ BotTick

BotSpec == BotInit /\ [][BotNext]_vars

(* ------------- specification of should_bot_respond of bot.py ----------- *)
\* should_bot_respond on the messages, under each chat allow-list and with the
\* bot identity as line 108 leaves it until init_bot has run
RespondInit ==
    /\ RegistryInit
    /\ BotRegistryInit
    /\ USERS = All
    /\ ALLOWED_CHATS \in AllowedChatsSettings
    /\ bot_info = NoBotInfo
    /\ rate_limits = [u \in SenderIds |-> NoWindow]
    /\ clock = 0
    /\ unit = IdleUnit

Respond == \E message \in Messages : should_bot_respond_call(message)

RespondNext ==
    \/ Respond
    \/ should_bot_respond_return
    \/ init_bot

RespondSpec == RespondInit /\ [][RespondNext]_vars

(* ------------------------- vocabulary of the claims -------------------- *)
\* the session id the map holds for key k (0: no record)
SessionOf(m, os, k) == IF MapGet(m, k) = None THEN 0 ELSE os[MapGet(m, k)].thread_id

\* handler h returns from get_or_create_thread in this step
ResolveReturns(h) ==
    /\ task[h].fn = "get_or_create_thread"
    /\ InFlight(task[h])
    /\ task'[h].pc = "done"

\* the heap entry o is not the record the map holds for its key: the key is
\* absent, or the map's record has another session id
StaleEntry(m, os, o) ==
    \/ MapGet(m, KeyOf(os[o])) = None
    \/ os[MapGet(m, KeyOf(os[o]))].thread_id # os[o].thread_id

\* the record r is idle for at most the lifetime at time t
Fresh(os, r, t) == t - os[r].last_access <= THREAD_LIFETIME_HOURS

\* the sweeper popped a heap entry in this step and now awaits its backend delete
SweepPops == sweep' # sweep /\ sweep'.pc = "awaitDelete"

\* the backend delete of the popped entry answered in this step
SweepSettles == sweep.pc = "awaitDelete" /\ sweep' # sweep

(* --------------------------------- C1 ---------------------------------- *)
\* C1: two get_or_create_thread calls for one key that overlapped and both found
\* no record return the same session id, and only one of them called create
C1_OneCreatePerKey ==
    \A h \in Handlers : \A g \in task[h].conc :
        ( /\ task[h].pc = "done" /\ task[g].pc = "done"
          /\ task[h].fn = "get_or_create_thread" /\ task[g].fn = "get_or_create_thread"
          /\ task[h].key = task[g].key
          /\ task[h].sawNone /\ task[g].sawNone
          /\ ~task[h].raised /\ ~task[g].raised )
        => ( /\ task[h].ret = task[g].ret
             /\ ~(task[h].created # 0 /\ task[g].created # 0) )

(* --------------------------------- C2 ---------------------------------- *)
\* C2: a heap entry the sweep pops that is not the map's record for its key is
\* discarded: no backend delete is awaited for it, and when its turn ends the
\* map is as it was
C2_StaleEntryDiscarded ==
    [][ /\ SweepPops => ~StaleEntry(chat_user_threads', objs', sweep'.oldest)
        /\ (SweepSettles /\ StaleEntry(chat_user_threads, objs, sweep.oldest))
              => chat_user_threads' = chat_user_threads ]_vars

(* --------------------------------- C3 ---------------------------------- *)
\* C3: the sweep neither removes from the map, nor deletes on the backend the
\* session of, a record idle for at most THREAD_LIFETIME_HOURS at the sweep's
\* current_time
C3_FreshRecordSurvivesSweep ==
    [][ /\ SweepSettles =>
              \A k \in Keys :
                  LET r == MapGet(chat_user_threads, k)
                  IN  (r # None /\ Fresh(objs, r, sweep.current_time))
                          => MapGet(chat_user_threads', k) = r
        /\ SweepPops =>
              \A k \in Keys :
                  LET r == MapGet(chat_user_threads', k)
                  IN  (r # None /\ Fresh(objs', r, sweep'.current_time))
                          => objs'[r].thread_id # objs'[sweep'.oldest].thread_id ]_vars

(* --------------------------------- C4 ---------------------------------- *)
\* C4: once a resolve replaced key k's record because session s was reported
\* invalid, the map never holds s for k again and no resolve of k returns s
C4_InvalidSessionNeverReused ==
    [][ \A p \in replaced :
          /\ SessionOf(chat_user_threads', objs', p[1]) # p[2]
          /\ \A h \in Handlers :
                (ResolveReturns(h) /\ task[h].key = p[1]) => task'[h].ret # p[2] ]_vars

(* --------------------------------- C5 ---------------------------------- *)
\* C5: when a sweep finishes, no record of the map is idle for more than
\* THREAD_LIFETIME_HOURS at the time the sweep took as current_time
C5_SweepEvictsEveryExpired ==
    [][ (SweepSettles /\ sweep'.pc = "sleep") =>
            \A i \in 1..Len(chat_user_threads') :
                Fresh(objs', chat_user_threads'[i][2], sweep.current_time) ]_vars

(* --------------------------------- C6 ---------------------------------- *)
\* C6: every key of the map has an entry in the heap
C6_HeapCoversMap ==
    \A i \in 1..Len(chat_user_threads) :
        \E j \in 1..Len(thread_heap) :
            KeyOf(objs[thread_heap[j]]) = chat_user_threads[i][1]

(* --------------------------------- C7 ---------------------------------- *)
\* C7: when delete_all_threads returns, the map and the heap are empty
C7_PurgeEmptiesRegistry ==
    [][ (purge.pc = "awaitDelete" /\ purge'.pc = "idle")
            => (chat_user_threads' = <<>> /\ thread_heap' = <<>>) ]_vars

(* --------------------------------- C8 ---------------------------------- *)
\* C8: delete_user_thread(k) returns False at once, with no backend call and the
\* map unchanged, when the map has no record for k; with a record it awaits the
\* backend delete and then returns True, raising nothing, with k gone from the
\* map, whether the delete answered or raised
C8_DeleteUserThread ==
    [][ \A h \in Handlers :
          /\ (task[h].pc = "idle" /\ task'[h].fn = "delete_user_thread") =>
                IF MapGet(chat_user_threads, task'[h].key) = None
                THEN /\ task'[h].pc = "done"
                     /\ ~task'[h].existed /\ ~task'[h].raised
                     /\ chat_user_threads' = chat_user_threads
                     /\ live' = live /\ deleteIssued' = deleteIssued
                ELSE /\ task'[h].pc = "awaitDelete"
                     /\ objs[MapGet(chat_user_threads, task'[h].key)].thread_id
                            \in deleteIssued'
          /\ (task[h].pc = "awaitDelete" /\ task[h].fn = "delete_user_thread"
                /\ task'[h] # task[h]) =>
                /\ task'[h].pc = "done"
                /\ task'[h].existed /\ ~task'[h].raised
                /\ ~MapHas(chat_user_threads', task[h].key) ]_vars

\* a reset returned True after its backend delete raised: the session it asked
\* to delete is still on the backend and the key is gone from the map
C8_Witness ==
    \E h \in Handlers :
        /\ task[h].pc = "done" /\ task[h].fn = "delete_user_thread"
        /\ task[h].existed
        /\ ~MapHas(chat_user_threads, task[h].key)
        /\ deleteIssued \cap live # {}

(* --------------------------------- C9 ---------------------------------- *)
\* C9: a resolve whose validity check succeeded returns the record's session id,
\* creates nothing and leaves the key's record with last_access = now; and a
\* resolve that follows one that returned s, with no reset, purge or time
\* elapsed in between and no invalid report, returns s
C9_ValidRecordReused ==
    [][ \A h \in Handlers :
          /\ (ResolveReturns(h) /\ task[h].pc = "awaitCheck") =>
                LET k == task[h].key
                IN  /\ task'[h].ret = objs[task[h].thread_info].thread_id
                    /\ nextId' = nextId
                    /\ SessionOf(chat_user_threads', objs', k) = task'[h].ret
                    /\ objs'[MapGet(chat_user_threads', k)].last_access = now
          /\ ( /\ ResolveReturns(h)
               /\ ~task'[h].raised /\ ~task'[h].checkRaised
               /\ task[h].prev # NoRes
               /\ lastRes[task[h].key] = task[h].prev )
                => task'[h].ret = task[h].prev ]_vars

(* --------------------------------- C10 --------------------------------- *)
\* C10: when the validity check raises, get_or_create_thread does not raise: it
\* goes on to create a session, and when the create answers it returns the new
\* id, with the key's record replaced by one of the new id and last_access = now
C10_CheckErrorRecreates ==
    [][ \A h \in Handlers :
          /\ (task[h].pc = "awaitCheck" /\ task[h].fn = "get_or_create_thread"
                /\ task'[h].checkRaised) =>
                /\ task'[h].pc = "awaitCreate"
                /\ ~task'[h].raised
                /\ nextId' = nextId
          /\ (task[h].pc = "awaitCreate" /\ task[h].checkRaised
                /\ task'[h].pc = "done" /\ ~task'[h].raised) =>
                LET k == task[h].key
                IN  /\ nextId' = nextId + 1
                    /\ task'[h].ret = nextId'
                    /\ task'[h].ret # objs[task[h].thread_info].thread_id
                    /\ task'[h].ret \in live'
                    /\ SessionOf(chat_user_threads', objs', k) = task'[h].ret
                    /\ objs'[MapGet(chat_user_threads', k)].last_access = now ]_vars

\* a resolve whose validity check raised has returned the session it created,
\* which is the one the map now holds for the key
C10_Witness ==
    \E h \in Handlers :
        /\ task[h].pc = "done" /\ task[h].fn = "get_or_create_thread"
        /\ task[h].checkRaised /\ ~task[h].sawNone
        /\ task[h].created # 0 /\ task[h].ret = task[h].created
        /\ SessionOf(chat_user_threads, objs, task[h].key) = task[h].ret

(* ------------------ vocabulary of the message-handling claims ---------- *)
\* handle_message ran on an update in this step; unit'.msg is the update
Handled == unit.pc = "idle" /\ unit'.pc # "idle" /\ unit'.fn = "handle_message"

\* should_bot_respond ran on a message in this step; unit'.msg is the message
\* and unit'.ret the value returned
Responded == unit.pc = "idle" /\ unit'.pc = "done" /\ unit'.fn = "should_bot_respond"

UserBanned(m) == m.user_id \in DOMAIN BANNED_USERS
ChatBanned(m) == m.chat_id \in DOMAIN BANNED_CHATS
ChatAllowed(m, allowed) == allowed.all \/ m.chat_id \in allowed.list
InGroup(m) == m.user_id # None /\ m.chat_type = "group"
InPrivate(m) == m.user_id # None /\ m.chat_type = "private"

\* the contents that mention the bot: "@mybot hi", "@other @MYBOT" and the long
\* "@MyBot...", each with a mention entity over the bot's name
MentionsBot == {2, 5, 6}

\* the update replies to a message of the bot, or mentions the bot
AddressedToBot(m) == m.reply_to = BotId \/ m.content \in MentionsBot

UsernameAllowed(m, users) == users.all \/ UsernameOf(m.user_id) \in users.list

\* the sender's rate window, as the update finds it, admits one more message
WithinRate(rl, m, t) ==
    \/ rl[m.user_id].count = 0
    \/ t - rl[m.user_id].windowStart >= RATE_LIMIT_WINDOW
    \/ rl[m.user_id].count < RATE_LIMIT_MESSAGES

WithinLength(m) == TextLen(Text(m)) <= MAX_MESSAGE_LENGTH

\* should_bot_respond accepted the update: control went on to the username allow-list
Accepted(u) == "users" \in u.steps

\* control reached the addressing check and the message passed it: the chat is
\* on the chat allow-list, the bot identity is resolved, and the message
\* replies to the bot or mentions it
PassedAddressing(m, allowed, bi) ==
    ChatAllowed(m, allowed) /\ bi.resolved /\ AddressedToBot(m)

\* the replies of one kind among those attempted
RepliesOfKind(u, kind) == {i \in 1..Len(u.replies) : u.replies[i].kind = kind}

(* --------------------------------- C11 --------------------------------- *)
\* C11: session resolution starts for an update only if the update passed
\* every admission step: sender not banned, chat not banned, a group chat on
\* the allow-list and addressed to the bot, the sender's username on the
\* username allow-list when one is configured, rate limit not exceeded and text
\* length not above MAX_MESSAGE_LENGTH
C11_ResolveOnlyAfterAdmission ==
    [][ (Handled /\ unit'.pc = "awaitResolve") =>
            /\ unit'.msg.user_id # None
            /\ ~UserBanned(unit'.msg)
            /\ ~ChatBanned(unit'.msg)
            /\ (InGroup(unit'.msg) =>
                   (ChatAllowed(unit'.msg, ALLOWED_CHATS) /\ AddressedToBot(unit'.msg)))
            /\ UsernameAllowed(unit'.msg, USERS)
            /\ WithinRate(rate_limits, unit'.msg, clock)
            /\ WithinLength(unit'.msg) ]_vars

(* --------------------------------- C12 --------------------------------- *)
\* C12: every group-chat message that is not addressed to the bot gets no
\* reply from should_bot_respond
C12_UnaddressedGroupSilent ==
    [][ (Responded /\ InGroup(unit'.msg) /\ ~AddressedToBot(unit'.msg))
            => unit'.replies = <<>> ]_vars

\* C12 as amended: every group-chat message that is not addressed to the bot
\* and whose sender is not banned is rejected by should_bot_respond with no
\* reply
C12_UnaddressedGroupSilentUnlessBanned ==
    [][ (Responded /\ InGroup(unit'.msg) /\ ~AddressedToBot(unit'.msg)
            /\ ~UserBanned(unit'.msg))
            => (~unit'.ret /\ unit'.replies = <<>>) ]_vars

\* an unaddressed message in a banned group chat went through the addressing
\* check and was rejected without a reply
C12_Witness ==
    /\ unit.pc = "done" /\ unit.fn = "should_bot_respond"
    /\ InGroup(unit.msg) /\ ~AddressedToBot(unit.msg) /\ ~UserBanned(unit.msg)
    /\ ChatBanned(unit.msg)
    /\ "addressing" \in unit.steps
    /\ ~unit.ret /\ unit.replies = <<>>

(* --------------------------------- C13 --------------------------------- *)
\* C13: an update of a banned sender causes exactly one reply attempt, carrying
\* the stored ban reason, and is rejected: it reaches neither the username
\* allow-list, nor the rate limiter, nor get_or_create_thread, in private and
\* in group chats alike
C13_BannedUserOneReply ==
    [][ (Handled /\ unit'.msg.user_id # None /\ UserBanned(unit'.msg)) =>
            /\ unit'.pc = "done"
            /\ Len(unit'.replies) = 1
            /\ unit'.replies[1].kind = "user_ban"
            /\ unit'.replies[1].reason = BANNED_USERS[unit'.msg.user_id]
            /\ unit'.steps \cap {"users", "rate", "resolve"} = {}
            /\ rate_limits' = rate_limits ]_vars

\* a banned sender's unaddressed update in a group chat off the allow-list got
\* the one ban reply, whose send failed
C13_Witness ==
    /\ unit.pc = "done"
    /\ InGroup(unit.msg) /\ UserBanned(unit.msg) /\ ~AddressedToBot(unit.msg)
    /\ ~ChatAllowed(unit.msg, ALLOWED_CHATS)
    /\ Len(unit.replies) = 1
    /\ unit.replies[1].reason = "abuse" /\ ~unit.replies[1].ok

(* --------------------------------- C14 --------------------------------- *)
\* C14: for a group-chat message of a sender who is not banned, in a chat that
\* is on the allow-list and not banned, with the bot identity resolved,
\* should_bot_respond returns True exactly when the message replies to a
\* message of the bot or one of its mention entities, sliced from the text,
\* equals "@" + the bot's username, compared case-insensitively
C14_GroupAcceptedIffAddressed ==
    [][ (Responded /\ InGroup(unit'.msg) /\ ~UserBanned(unit'.msg)
            /\ ChatAllowed(unit'.msg, ALLOWED_CHATS) /\ ~ChatBanned(unit'.msg)
            /\ bot_info.resolved)
            => (unit'.ret <=> AddressedToBot(unit'.msg)) ]_vars

\* a group message whose second mention entity names the bot in another case,
\* and which replies to nothing, was accepted
C14_Witness ==
    /\ unit.pc = "done" /\ unit.fn = "should_bot_respond"
    /\ InGroup(unit.msg) /\ unit.msg.content = 5 /\ unit.msg.reply_to = None
    /\ unit.ret

(* --------------------------------- C15 --------------------------------- *)
\* C15: a private-chat update of a sender who is not banned, in a chat that is
\* not banned, is accepted by should_bot_respond whatever its entities, its
\* reply target, the chat allow-list and the bot identity, and reaches the
\* get_or_create_thread call whenever it also passes the username allow-list,
\* the rate limit and the length check
C15_PrivateReachesResolution ==
    [][ (Handled /\ InPrivate(unit'.msg) /\ ~UserBanned(unit'.msg)
            /\ ~ChatBanned(unit'.msg)) =>
            /\ Accepted(unit')
            /\ (UsernameAllowed(unit'.msg, USERS) /\ WithinRate(rate_limits, unit'.msg, clock)
                    /\ WithinLength(unit'.msg))
                   => unit'.pc = "awaitResolve" ]_vars

\* C15 as amended: such an update is accepted by should_bot_respond; when it
\* also passes the username allow-list, the rate limit and the length check,
\* handle_message sends the typing indicator, and the update reaches the
\* get_or_create_thread call when that send answers, is dropped with no reply
\* when it raises Forbidden, and gets one generic failure reply, with no
\* session resolution, when it raises any other error
C15_PrivateReachesResolutionUnlessTypingRaises ==
    [][ (Handled /\ InPrivate(unit'.msg) /\ ~UserBanned(unit'.msg)
            /\ ~ChatBanned(unit'.msg)) =>
            /\ Accepted(unit')
            /\ (UsernameAllowed(unit'.msg, USERS) /\ WithinRate(rate_limits, unit'.msg, clock)
                    /\ WithinLength(unit'.msg))
                   => /\ unit'.typing \in TypingResp
                      /\ unit'.typing = "ok" => unit'.pc = "awaitResolve"
                      /\ unit'.typing = "forbidden" =>
                             /\ unit'.pc = "done" /\ unit'.replies = <<>>
                             /\ unit'.failure = "none" /\ "resolve" \notin unit'.steps
                      /\ unit'.typing = "error" =>
                             /\ unit'.pc = "done" /\ unit'.failure = "typing"
                             /\ Len(unit'.replies) = 1
                             /\ unit'.replies[1].kind = "failure"
                             /\ "resolve" \notin unit'.steps ]_vars

\* a private update with no mention and no reply target, in a chat off the chat
\* allow-list and with the bot identity unresolved, is at the
\* get_or_create_thread call
C15_Witness ==
    /\ unit.pc = "awaitResolve"
    /\ InPrivate(unit.msg)
    /\ unit.msg.reply_to = None /\ ~AddressedToBot(unit.msg)
    /\ ~ChatAllowed(unit.msg, ALLOWED_CHATS)
    /\ ~bot_info.resolved

(* --------------------------------- C16 --------------------------------- *)
\* C16: in a banned group chat a message of a sender who is not banned is
\* always rejected by should_bot_respond, and the chat-ban reply, carrying the
\* stored reason, is sent exactly when the message passed the addressing check
\* (control reached the check and the message replies to the bot or mentions
\* it); a message that is not addressed to the bot gets no reply
C16_BannedGroupReplyIffPassedAddressing ==
    [][ (Responded /\ InGroup(unit'.msg) /\ ChatBanned(unit'.msg)
            /\ ~UserBanned(unit'.msg)) =>
            /\ ~unit'.ret
            /\ RepliesOfKind(unit', "chat_ban") # {}
                   <=> PassedAddressing(unit'.msg, ALLOWED_CHATS, bot_info)
            /\ IF PassedAddressing(unit'.msg, ALLOWED_CHATS, bot_info)
               THEN /\ Len(unit'.replies) = 1
                    /\ unit'.replies[1].kind = "chat_ban"
                    /\ unit'.replies[1].reason = BANNED_CHATS[unit'.msg.chat_id]
                    /\ "addressing" \in unit'.steps
               ELSE unit'.replies = <<>> ]_vars

\* a message that replies to the bot without mentioning it, in a banned group
\* chat, got the chat-ban reply and was rejected
C16_Witness ==
    /\ unit.pc = "done" /\ unit.fn = "should_bot_respond"
    /\ InGroup(unit.msg) /\ ChatBanned(unit.msg) /\ ~UserBanned(unit.msg)
    /\ unit.msg.reply_to = BotId /\ unit.msg.content \notin MentionsBot
    /\ ~unit.ret
    /\ Len(unit.replies) = 1
    /\ unit.replies[1].kind = "chat_ban" /\ unit.replies[1].reason = "flood"

(* --------------------------------- C17 --------------------------------- *)
\* C17: a group-chat message evaluated while the bot identity is unresolved is
\* rejected with no reply, whatever its entities and reply target, and the
\* condition is logged as an error
C17_UnresolvedIdentityFailsClosed ==
    [][ (Responded /\ InGroup(unit'.msg) /\ ~bot_info.resolved) =>
            /\ ~unit'.ret
            /\ unit'.replies = <<>>
            /\ "bot_info" \in unit'.errors ]_vars

\* C17 as amended: a group-chat message of a sender who is not banned, in a
\* chat that passes the chat allow-list, evaluated while the bot identity is
\* unresolved, is rejected with no reply, whatever its entities and reply
\* target, and the condition is logged as an error
C17_UnresolvedIdentityFailsClosedInScope ==
    [][ (Responded /\ InGroup(unit'.msg) /\ ~bot_info.resolved
            /\ ~UserBanned(unit'.msg) /\ ChatAllowed(unit'.msg, ALLOWED_CHATS)) =>
            /\ ~unit'.ret
            /\ unit'.replies = <<>>
            /\ "bot_info" \in unit'.errors ]_vars

\* a message that both replies to the bot and mentions it, in a banned group
\* chat, was rejected with the error logged and no reply
C17_Witness ==
    /\ unit.pc = "done" /\ unit.fn = "should_bot_respond"
    /\ InGroup(unit.msg) /\ ChatBanned(unit.msg)
    /\ unit.msg.reply_to = BotId /\ unit.msg.content \in MentionsBot
    /\ ~unit.ret
    /\ "bot_info" \in unit.errors
    /\ unit.replies = <<>>

(* --------------------------------- C18 --------------------------------- *)
\* the update passes steps 1 to 6 of the admission: structure, user ban, scope,
\* addressing, deferred chat ban and username allow-list
PassesSteps1To6(m) ==
    /\ m.user_id # None
    /\ ~UserBanned(m)
    /\ ~ChatBanned(m)
    /\ InGroup(m) => (ChatAllowed(m, ALLOWED_CHATS) /\ bot_info.resolved /\ AddressedToBot(m))
    /\ UsernameAllowed(m, USERS)

\* C18: the admission steps run in order and stop at the first reject, so the
\* rate state changes only when an update that passed steps 1 to 6 is handled,
\* and then only in the sender's entry: an update rejected at one of those
\* steps leaves the rate state of every user unchanged
C18_RateCountedOnlyAfterStep6 ==
    [][ /\ rate_limits' # rate_limits => Handled
        /\ Handled =>
              /\ ~PassesSteps1To6(unit'.msg) =>
                     (rate_limits' = rate_limits /\ "rate" \notin unit'.steps)
              /\ "rate" \in unit'.steps =>
                     /\ {"structural", "user_ban", "scope", "users"} \subseteq unit'.steps
                     /\ \A u \in SenderIds \ {unit'.msg.user_id} :
                            rate_limits'[u] = rate_limits[u] ]_vars

\* an unaddressed group update of a sender with an open rate window was
\* rejected before the rate limiter
C18_Witness ==
    /\ unit.pc = "done"
    /\ InGroup(unit.msg) /\ ~UserBanned(unit.msg) /\ ~Accepted(unit)
    /\ rate_limits[unit.msg.user_id].count > 0

(* --------------------------------- C19 --------------------------------- *)
\* C19: for one user, a rate-limit check that finds no window, or a window
\* started RATE_LIMIT_WINDOW seconds ago or earlier, is admitted and leaves the
\* user's counter at 1 in a window starting now; inside a window the checks
\* are counted, the first RATE_LIMIT_MESSAGES of them are admitted and the
\* later ones rejected
C19_RateWindow ==
    [][ (Handled /\ "rate" \in unit'.steps) =>
            LET user_id == unit'.msg.user_id
                w == rate_limits[user_id]
                admitted == "length" \in unit'.steps
            IN  IF w.count = 0 \/ clock >= w.windowStart + RATE_LIMIT_WINDOW
                THEN /\ admitted
                     /\ rate_limits'[user_id] = [count |-> 1, windowStart |-> clock]
                ELSE /\ admitted <=> (w.count + 1 <= RATE_LIMIT_MESSAGES)
                     /\ rate_limits'[user_id] =
                            [count |-> w.count + 1, windowStart |-> w.windowStart] ]_vars

\* in a window that started when an earlier window had expired, the check
\* after the first one rejected was rejected as well
C19_Witness ==
    /\ unit.pc = "done"
    /\ RepliesOfKind(unit, "rate_limit") # {}
    /\ rate_limits[unit.msg.user_id].count = RATE_LIMIT_MESSAGES + 2
    /\ rate_limits[unit.msg.user_id].windowStart >= RATE_LIMIT_WINDOW
    /\ clock - rate_limits[unit.msg.user_id].windowStart < RATE_LIMIT_WINDOW

(* --------------------------------- C20 --------------------------------- *)
\* handle_message ended in this step on an exception raised after the length
\* check: by the typing indicator, by get_or_create_thread, by the backend
\* calls of process_with_assistant (or a failed, cancelled or expired run, or
\* the timeout), or by the send of the reply
EndsOnException ==
    /\ unit.pc # "done" /\ unit'.pc = "done"
    /\ "typing" \in unit'.steps
    /\ unit'.failure # "none" \/ unit'.typing # "ok"

\* C20: every exception raised in handle_message between admission and reply
\* is caught in handle_message: exactly one generic failure reply is
\* attempted, and nothing propagates out of handle_message, even when that
\* reply fails
C20_ExceptionsCaughtOneFailureReply ==
    [][ /\ ~unit'.raised
        /\ EndsOnException =>
              /\ Cardinality(RepliesOfKind(unit', "failure")) = 1
              /\ unit'.replies[Len(unit'.replies)].kind = "failure" ]_vars

\* C20 as amended: every exception raised in handle_message between admission
\* and reply, other than a Forbidden error of the typing indicator (which ends
\* the handling with no reply), is caught in handle_message: exactly one
\* generic failure reply is attempted, and nothing propagates out of
\* handle_message, even when that reply fails
C20_ExceptionsCaughtOneFailureReplyButForbidden ==
    [][ /\ ~unit'.raised
        /\ (EndsOnException /\ unit'.typing = "forbidden") => unit'.replies = <<>>
        /\ (EndsOnException /\ unit'.typing # "forbidden") =>
              /\ Cardinality(RepliesOfKind(unit', "failure")) = 1
              /\ unit'.replies[Len(unit'.replies)].kind = "failure" ]_vars

\* the run timed out, the failure reply was attempted and failed, and
\* handle_message ended without raising
C20_Witness ==
    /\ unit.pc = "done"
    /\ unit.failure = "timeout"
    /\ Len(unit.replies) = 1
    /\ unit.replies[1].kind = "failure" /\ ~unit.replies[1].ok
    /\ ~unit.raised

(* --------------------------------- C21 --------------------------------- *)
\* C21: while the run reports neither completion nor a failed, cancelled or
\* expired status, the polling goes on only with an elapsed time within
\* ASSISTANT_TIMEOUT; once the elapsed time read after a poll
\* exceeds it, exactly one cancel call is issued, and after that call, whether
\* it answers or raises, the timeout failure is raised: no further poll, no
\* second cancel, no result text
C21_TimeoutCancelsOnceThenFails ==
    [][ /\ (unit.pc = "awaitPoll" /\ unit'.pc = "awaitPoll"
                /\ unit'.status = "in_progress") =>
               ~(unit'.elapsed > ASSISTANT_TIMEOUT)
        /\ unit'.pc = "awaitCancel" =>
               /\ unit.pc = "awaitPoll"
               /\ unit'.elapsed > ASSISTANT_TIMEOUT
               /\ unit.cancels = 0 /\ unit'.cancels = 1
        /\ unit.pc = "awaitCancel" =>
               /\ unit'.pc = "done" /\ unit'.failure = "timeout"
               /\ unit'.polls = unit.polls /\ unit'.cancels = 1
               /\ RepliesOfKind(unit', "answer") = {}
               /\ ~unit'.raised ]_vars

(* --------------------------------- C22 --------------------------------- *)
\* a poll answered in this step with the run status failed, cancelled or expired
PollReportsEnded ==
    /\ unit.pc = "awaitPoll"
    /\ unit'.polls = unit.polls + 1
    /\ unit'.status \in {"failed", "cancelled", "expired"}

\* the failure replies of the unit that were delivered
DeliveredFailures(u) == {i \in RepliesOfKind(u, "failure") : u.replies[i].ok}

\* C22: a poll that reports the run failed, cancelled or expired ends the
\* handling at once with a processing failure: no further poll, no cancel, no
\* second run, no second append, no result text; and the user receives
\* exactly one generic failure reply
C22_EndedRunOneFailureReplyReceived ==
    [][ PollReportsEnded =>
            /\ unit'.pc = "done" /\ unit'.failure = unit'.status
            /\ unit'.runs = 1 /\ unit'.appends = 1 /\ unit'.cancels = 0
            /\ RepliesOfKind(unit', "answer") = {}
            /\ Cardinality(DeliveredFailures(unit')) = 1 ]_vars

(* --------------------------------- C27 --------------------------------- *)
\* the replies of the unit that were delivered
Delivered(u) == {i \in 1..Len(u.replies) : u.replies[i].ok}

\* C27: for the update being handled at most one reply is delivered: a second
\* reply is attempted only as the generic failure reply after a rejection
\* reply or an assistant reply whose send failed, and never after a failure
\* reply
C27_AtMostOneReplyDelivered ==
    /\ Cardinality(Delivered(unit)) <= 1
    /\ Len(unit.replies) <= 2
    /\ Len(unit.replies) = 2 =>
           /\ ~unit.replies[1].ok
           /\ unit.replies[1].kind # "failure"
           /\ unit.replies[2].kind = "failure"

\* the send of the assistant's reply failed and the failure reply was
\* delivered
C27_Witness ==
    /\ unit.pc = "done"
    /\ Len(unit.replies) = 2
    /\ unit.replies[1].kind = "answer" /\ ~unit.replies[1].ok
    /\ unit.replies[2].kind = "failure" /\ unit.replies[2].ok

(* --------------------------------- C23 --------------------------------- *)
\* the backend delete awaited by the sweeper raised in this step
SweepDeleteFailed ==
    /\ sweep.pc = "awaitDelete"
    /\ sweep' # sweep
    /\ live' = live

\* C23: when the backend delete of an entry popped by the sweeper raises, the
\* entry's key still leaves the map and the loop goes on in the same pass,
\* with the same current_time: the next heap entry, if expired, is popped and
\* its delete issued, and otherwise the sweeper goes back to sleep, from which
\* it wakes again
C23_SweepSurvivesDeleteFailure ==
    [][ /\ sweep'.pc \in {"sleep", "awaitDelete"}
        /\ SweepDeleteFailed =>
              /\ ~MapHas(chat_user_threads', KeyOf(objs[sweep.oldest]))
              /\ IF thread_heap = <<>>
                    \/ WithinLifetime(objs, thread_heap[1], sweep.current_time)
                 THEN sweep' = SweepSleep /\ thread_heap' = thread_heap
                 ELSE /\ sweep'.pc = "awaitDelete"
                      /\ sweep'.oldest = thread_heap[1]
                      /\ sweep'.current_time = sweep.current_time
                      /\ objs[thread_heap[1]].thread_id \in deleteIssued'
                      /\ Len(thread_heap') = Len(thread_heap) - 1 ]_vars

\* the sweeper awaits the delete of the expired entry of a second key while
\* the session of the first key's entry, whose delete raised, is still on the
\* backend and the first key is out of the map
C23_Witness ==
    /\ sweep.pc = "awaitDelete"
    /\ \A h \in Handlers : task[h].pc = "idle"
    /\ Len(objs) = 2
    /\ \E o \in 1..Len(objs) :
          /\ KeyOf(objs[o]) # KeyOf(objs[sweep.oldest])
          /\ objs[o].thread_id \in deleteIssued \cap live
          /\ ~MapHas(chat_user_threads, KeyOf(objs[o]))

(* --------------------------------- C24 --------------------------------- *)
\* the heap holds an entry whose session id is thread_id
HeldByHeap(os, h, thread_id) == \E i \in 1..Len(h) : os[h[i]].thread_id = thread_id

\* a step of delete_all_threads
PurgeStep ==
    \/ purge' # purge
    \/ thread_heap' = <<>> /\ thread_heap # <<>> /\ sweep' = sweep

\* C24: apart from delete_all_threads, every step leaves in the heap an entry
\* for each session id that a create call of get_or_create_thread returns in
\* that step, and for each session id the heap held before, unless a backend
\* delete has been issued for it: a created session stays in the sweeper's
\* reach until it is passed to a backend delete
C24_CreatedSessionStaysInHeap ==
    [][ ~PurgeStep =>
          \A thread_id \in 1..nextId' :
              ((thread_id > nextId \/ HeldByHeap(objs, thread_heap, thread_id))
                  /\ thread_id \notin deleteIssued')
                  => HeldByHeap(objs', thread_heap', thread_id) ]_vars

\* two sessions were created for one key; neither was passed to a backend
\* delete, the map remembers only one of them and the heap holds both
C24_Witness ==
    \E s1, s2 \in 1..nextId :
        /\ s1 # s2
        /\ {s1, s2} \cap deleteIssued = {}
        /\ HeldByHeap(objs, thread_heap, s1) /\ HeldByHeap(objs, thread_heap, s2)
        /\ \E o1, o2 \in 1..Len(objs) :
              /\ objs[o1].thread_id = s1 /\ objs[o2].thread_id = s2
              /\ KeyOf(objs[o1]) = KeyOf(objs[o2])
              /\ MapGet(chat_user_threads, KeyOf(objs[o1])) = o2

(* --------------------------------- C25 --------------------------------- *)
\* a reset or the sweeper issues a backend delete for thread_id in this step
IssuesDelete(thread_id) ==
    \/ \E h \in Handlers :
          /\ task[h].pc = "idle" /\ task'[h].pc = "awaitDelete"
          /\ task'[h].fn = "delete_user_thread"
          /\ objs[task'[h].thread_info].thread_id = thread_id
    \/ /\ sweep' # sweep /\ sweep'.pc = "awaitDelete"
       /\ objs[sweep'.oldest].thread_id = thread_id

\* a backend delete issued by a reset or by the sweeper for thread_id has not
\* answered yet
AwaitsDelete(thread_id) ==
    \/ \E h \in Handlers :
          /\ task[h].pc = "awaitDelete" /\ task[h].fn = "delete_user_thread"
          /\ objs[task[h].thread_info].thread_id = thread_id
    \/ sweep.pc = "awaitDelete" /\ objs[sweep.oldest].thread_id = thread_id

\* C25: once the backend delete that a reset or the sweeper issued for a
\* session id has answered, neither a reset nor the sweeper issues a backend
\* delete for that session id again
C25_DeleteIssuedAtMostOnce ==
    [][ \A thread_id \in deleteIssued :
           ~AwaitsDelete(thread_id) => ~IssuesDelete(thread_id) ]_vars

(* --------------------------------- C26 --------------------------------- *)
\* C26: the step in which the create call of get_or_create_thread raises
\* leaves the objects, the map and the heap as they are, and so do the steps
\* of that resolve before it: no record is inserted, and the record whose
\* session failed the validity check stays with its last_access
C26_CreateFailureLeavesRegistry ==
    [][ \A h \in Handlers :
          /\ (task[h].pc = "awaitCreate" /\ task'[h].pc = "done" /\ task'[h].raised) =>
                /\ objs' = objs
                /\ chat_user_threads' = chat_user_threads
                /\ thread_heap' = thread_heap
                /\ nextId' = nextId /\ live' = live
          /\ (task'[h].fn = "get_or_create_thread"
                /\ task'[h].pc \in {"awaitCheck", "awaitCreate"}
                /\ task'[h] # task[h]) =>
                /\ objs' = objs
                /\ chat_user_threads' = chat_user_threads
                /\ thread_heap' = thread_heap ]_vars

\* a resolve found a record, the validity check failed and the create raised:
\* the record is still the key's record, with a last_access in the past, and
\* still in the heap
C26_Witness ==
    \E h \in Handlers :
        /\ task[h].pc = "done" /\ task[h].fn = "get_or_create_thread"
        /\ task[h].raised /\ ~task[h].sawNone
        /\ MapHas(chat_user_threads, task[h].key)
        /\ LET o == MapGet(chat_user_threads, task[h].key)
           IN  /\ objs[o].last_access < now
               /\ \E i \in 1..Len(thread_heap) : thread_heap[i] = o

====
